---- MODULE Spec2Model ----
(***************************************************************************)
(* A model of the image composition code of campaigns/utils.py:            *)
(*   resize_and_crop, overlay_frame_on_photo, create_three_layer_poster.   *)
(*                                                                         *)
(* Each function is a pipeline whose position is pc and whose local        *)
(* variables are the fields of one record (rc, ov, tl).  Python's float    *)
(* arithmetic is IEEE-754 binary64; it is modelled bit for bit on          *)
(* non-negative values (FromInt, FMul, FDiv, FTrunc below), because the    *)
(* sizes the code computes with int(a * (b / a)) depend on the rounding.   *)
(***************************************************************************)
EXTENDS Integers, Sequences, FiniteSets, TLC

VARIABLES pc, rc, ov, tl, ly, mk, cc, fs, b64, sr, db

vars == <<pc, rc, ov, tl, ly, mk, cc, fs, b64, sr, db>>

\* the variables of the functions modelled further below
restVars == <<ly, mk, cc, fs, b64, sr, db>>

(***************************************************************************)
(* Bounds of the model.                                                    *)
(***************************************************************************)
\* resize_and_crop: image and target sides range over 1..MaxDim
MaxDim == 9
\* create_three_layer_poster: poster sides are 5, 10, ..., 5 * MaxPosterK
MaxPosterK == 4
\* create_three_layer_poster: profile photo sides are MaxProfile - 1 and MaxProfile
MaxProfile == 11
\* create_three_layer_poster: the scales are 1/2, 2/2, ..., MaxScaleNum/2
MaxScaleNum == 4
\* masks have sides 1..MaxMask
MaxMask == 8
\* calls of overlay_frame_on_photo running at the same time
MaxCalls == 2
\* frames in the database have the keys 1..MaxFrames
MaxFrames == 3
\* the text handed to process_base64_image has at most MaxText characters
MaxText == 6
\* at most MaxOps requests are sent to the admin views
MaxOps == 2
\* campaigns get the keys 1..MaxCampaigns
MaxCampaigns == 2

(***************************************************************************)
(* Natural numbers of any size: little-endian sequences of limbs, without  *)
(* leading zero limbs (<<>> is 0).                                         *)
(***************************************************************************)
LimbBits == 15
LimbBase == 32768

RECURSIVE Pow2(_)
Pow2(n) == IF n = 0 THEN 1 ELSE 2 * Pow2(n - 1)

RECURSIVE BNorm(_)
BNorm(a) == IF a = <<>> THEN a
            ELSE IF a[Len(a)] = 0 THEN BNorm(SubSeq(a, 1, Len(a) - 1)) ELSE a

RECURSIVE BFromInt(_)
BFromInt(n) == IF n = 0 THEN <<>> ELSE <<n % LimbBase>> \o BFromInt(n \div LimbBase)

RECURSIVE BToInt(_)
BToInt(a) == IF a = <<>> THEN 0 ELSE a[1] + LimbBase * BToInt(Tail(a))

Limb(a, i) == IF i <= Len(a) THEN a[i] ELSE 0

RECURSIVE BCmpFrom(_, _, _)
BCmpFrom(a, b, i) == IF i = 0 THEN 0
                     ELSE IF a[i] > b[i] THEN 1
                     ELSE IF a[i] < b[i] THEN -1
                     ELSE BCmpFrom(a, b, i - 1)

\* -1, 0 or 1 as a < b, a = b, a > b
BCmp(a, b) == IF Len(a) > Len(b) THEN 1
              ELSE IF Len(a) < Len(b) THEN -1
              ELSE BCmpFrom(a, b, Len(a))

RECURSIVE BAddFrom(_, _, _, _)
BAddFrom(a, b, i, carry) ==
    IF i > Len(a) /\ i > Len(b)
    THEN IF carry = 0 THEN <<>> ELSE <<carry>>
    ELSE LET s == Limb(a, i) + Limb(b, i) + carry
         IN  <<s % LimbBase>> \o BAddFrom(a, b, i + 1, s \div LimbBase)

BAdd(a, b) == BAddFrom(a, b, 1, 0)

RECURSIVE BSubFrom(_, _, _, _)
BSubFrom(a, b, i, borrow) ==
    IF i > Len(a) THEN <<>>
    ELSE LET s == a[i] - Limb(b, i) - borrow
         IN  IF s < 0 THEN <<s + LimbBase>> \o BSubFrom(a, b, i + 1, 1)
                      ELSE <<s>> \o BSubFrom(a, b, i + 1, 0)

\* a - b, for a >= b
BSub(a, b) == BNorm(BSubFrom(a, b, 1, 0))

RECURSIVE BMulLimbFrom(_, _, _, _)
BMulLimbFrom(a, k, i, carry) ==
    IF i > Len(a)
    THEN IF carry = 0 THEN <<>> ELSE <<carry>>
    ELSE LET s == a[i] * k + carry
         IN  <<s % LimbBase>> \o BMulLimbFrom(a, k, i + 1, s \div LimbBase)

\* a * k, for 0 <= k < LimbBase
BMulLimb(a, k) == IF k = 0 THEN <<>> ELSE BMulLimbFrom(a, k, 1, 0)

RECURSIVE BMulFrom(_, _, _)
BMulFrom(a, b, i) ==
    IF i > Len(b) THEN <<>>
    ELSE LET rest == BMulFrom(a, b, i + 1)
         IN  BAdd(BMulLimb(a, b[i]), IF rest = <<>> THEN <<>> ELSE <<0>> \o rest)

BMul(a, b) == BMulFrom(a, b, 1)

RECURSIVE IntBitLen(_)
IntBitLen(n) == IF n = 0 THEN 0 ELSE 1 + IntBitLen(n \div 2)

BBitLen(a) == IF a = <<>> THEN 0 ELSE (Len(a) - 1) * LimbBits + IntBitLen(a[Len(a)])

\* a * 2^n
BShl(a, n) == IF a = <<>> THEN <<>>
              ELSE [i \in 1..(n \div LimbBits) |-> 0] \o BMulLimb(a, Pow2(n % LimbBits))

\* a \div 2^n
BShr(a, n) ==
    LET k == n \div LimbBits
        r == n % LimbBits
        p == Pow2(r)
        q == Pow2(LimbBits - r)
    IN  IF k >= Len(a) THEN <<>>
        ELSE BNorm([i \in 1..(Len(a) - k) |->
                      (a[i + k] \div p) + (Limb(a, i + k + 1) % p) * q])

BOdd(a) == a /= <<>> /\ a[1] % 2 = 1

(***************************************************************************)
(* Python floats: binary64, here the non-negative finite ones.  A float is *)
(* [m, e] with value m * 2^e, m = 0 or 2^52 <= m < 2^53.  Every operation  *)
(* computes the exact result and rounds it to nearest, ties to even.       *)
(***************************************************************************)
MantBits == 53
GuardBits == 3

FZero == [m |-> <<>>, e |-> 0]

\* N * 2^e (and, if sticky, a little more) rounded to MantBits bits
Round(N, e, sticky) ==
    LET L == BBitLen(N)
    IN  IF N = <<>> THEN FZero
        ELSE IF L <= MantBits
        THEN [m |-> BShl(N, MantBits - L), e |-> e - (MantBits - L)]
        ELSE LET d    == L - MantBits
                 kept == BShr(N, d)
                 rem  == BSub(N, BShl(kept, d))
                 c    == BCmp(rem, BShl(<<1>>, d - 1))
                 up   == c > 0 \/ (c = 0 /\ (sticky \/ BOdd(kept)))
                 m2   == IF up THEN BAdd(kept, <<1>>) ELSE kept
             IN  IF BBitLen(m2) > MantBits
                 THEN [m |-> BShr(m2, 1), e |-> e + d + 1]
                 ELSE [m |-> m2, e |-> e + d]

\* float(n) for an int n >= 0
FromInt(n) == Round(BFromInt(n), 0, FALSE)

\* x * y
FMul(x, y) == Round(BMul(x.m, y.m), x.e + y.e, FALSE)

\* k more quotient bits of st.r / st.d by long division
RECURSIVE DivSteps(_, _)
DivSteps(st, k) ==
    IF k = 0 THEN st
    ELSE LET Q2 == BMulLimb(st.q, 2)
             R2 == BMulLimb(st.r, 2)
         IN  IF BCmp(R2, st.d) >= 0
             THEN DivSteps([q |-> BAdd(Q2, <<1>>), r |-> BSub(R2, st.d), d |-> st.d], k - 1)
             ELSE DivSteps([q |-> Q2, r |-> R2, d |-> st.d], k - 1)

\* x / y, for y > 0
FDiv(x, y) ==
    IF x.m = <<>> THEN FZero
    ELSE LET first == IF BCmp(x.m, y.m) >= 0
                      THEN [q |-> <<1>>, r |-> BSub(x.m, y.m), d |-> y.m]
                      ELSE [q |-> <<>>, r |-> x.m, d |-> y.m]
             res   == DivSteps(first, MantBits + GuardBits)
         IN  Round(res.q, x.e - y.e - (MantBits + GuardBits), res.r /= <<>>)

\* -1, 0 or 1 as x < y, x = y, x > y
FCmp(x, y) ==
    IF x.m = <<>> \/ y.m = <<>>
    THEN (IF x.m = <<>> THEN 0 ELSE 1) - (IF y.m = <<>> THEN 0 ELSE 1)
    ELSE IF x.e > y.e THEN 1
    ELSE IF x.e < y.e THEN -1
    ELSE BCmp(x.m, y.m)

\* max(x, y): Python returns the first argument unless the second is greater
FMax(x, y) == IF FCmp(y, x) > 0 THEN y ELSE x

\* int(x): truncation toward zero
FTrunc(x) == IF x.e >= 0 THEN BToInt(BShl(x.m, x.e)) ELSE BToInt(BShr(x.m, -x.e))

\* the limbs of the fraction r / b (0 <= r < b), least significant first
RECURSIVE FracLimbs(_, _, _)
FracLimbs(r, b, k) ==
    IF k = 0 THEN <<>>
    ELSE FracLimbs((r * LimbBase) % b, b, k - 1) \o <<(r * LimbBase) \div b>>

\* what is left of r / b after k limbs
RECURSIVE FracRest(_, _, _)
FracRest(r, b, k) == IF k = 0 THEN r ELSE FracRest((r * LimbBase) % b, b, k - 1)

QuotLimbs == 5

\* a / b for ints 0 <= a, 0 < b < 2^16: Python's true division of two ints,
\* the exact quotient correctly rounded
TrueDiv(a, b) ==
    Round(BNorm(FracLimbs(a % b, b, QuotLimbs) \o BFromInt(a \div b)),
          0 - QuotLimbs * LimbBits,
          FracRest(a % b, b, QuotLimbs) /= 0)

(***************************************************************************)
(* Pillow images, as far as the code looks at them.                        *)
(***************************************************************************)
Width(size)  == size[1]
Height(size) == size[2]

Min(a, b) == IF a < b THEN a ELSE b

\* Image.resize(size) raises ValueError unless both sides are at least 1
ResizeOk(size) == Width(size) >= 1 /\ Height(size) >= 1

\* Image.crop(box) on an image of any size: the result has the size of the
\* box; the part of the box outside the image is filled with zeros
CropSizeClipped(box, size) ==
    <<Min(box[3], Width(size)) - (IF box[1] < 0 THEN 0 ELSE box[1]),
      Min(box[4], Height(size)) - (IF box[2] < 0 THEN 0 ELSE box[2])>>

CropSize(box, size) == <<box[3] - box[1], box[4] - box[2]>>

\* the crop box reaches outside the image it is cut from: padding appears
BoxInside(box, size) ==
    /\ 0 <= box[1] /\ box[1] <= box[3] /\ box[3] <= Width(size)
    /\ 0 <= box[2] /\ box[2] <= box[4] /\ box[4] <= Height(size)

NoCall == [fn |-> "none"]

RestIdle ==
    /\ ly = NoCall /\ mk = NoCall /\ cc = NoCall /\ fs = NoCall /\ b64 = NoCall
    /\ sr = NoCall /\ db = NoCall

(***************************************************************************)
(* resize_and_crop(image, target_size)                                     *)
(***************************************************************************)
RcSides == 1..MaxDim

RcInit ==
    /\ pc = "rc_start"
    /\ \E iw \in RcSides, ih \in RcSides, tw \in RcSides, th \in RcSides :
         rc = [image        |-> <<iw, ih>>,
               target_size  |-> <<tw, th>>,
               target_ratio |-> FZero,
               img_ratio    |-> FZero,
               new_width    |-> 0,
               new_height   |-> 0,
               scaled       |-> <<0, 0>>,
               box          |-> <<0, 0, 0, 0>>,
               resized      |-> <<0, 0>>]
    /\ ov = NoCall
    /\ tl = NoCall
    /\ RestIdle

\* target_ratio = target_width / target_height; img_ratio = img_width / img_height
RcRatios ==
    /\ pc = "rc_start"
    /\ rc' = [rc EXCEPT
                !.target_ratio = TrueDiv(Width(rc.target_size), Height(rc.target_size)),
                !.img_ratio    = TrueDiv(Width(rc.image), Height(rc.image))]
    /\ pc' = "rc_ratios"
    /\ UNCHANGED <<ov, tl, restVars>>

\* if img_ratio > target_ratio: scale to the target's height
RcScaleWider ==
    /\ pc = "rc_ratios"
    /\ FCmp(rc.img_ratio, rc.target_ratio) > 0
    /\ LET new_height == Height(rc.target_size)
           new_width  == FTrunc(FMul(FromInt(new_height), rc.img_ratio))
       IN  /\ rc' = [rc EXCEPT !.new_width = new_width, !.new_height = new_height,
                               !.scaled = <<new_width, new_height>>]
           /\ pc' = IF ResizeOk(<<new_width, new_height>>) THEN "rc_wider" ELSE "rc_raised"
    /\ UNCHANGED <<ov, tl, restVars>>

\* left = (new_width - target_width) // 2; crop((left, 0, left + target_width, target_height))
RcCropWider ==
    /\ pc = "rc_wider"
    /\ LET left == (rc.new_width - Width(rc.target_size)) \div 2
           box  == <<left, 0, left + Width(rc.target_size), Height(rc.target_size)>>
       IN  rc' = [rc EXCEPT !.box = box, !.resized = CropSize(box, rc.scaled)]
    /\ pc' = "rc_cropped"
    /\ UNCHANGED <<ov, tl, restVars>>

\* else: scale to the target's width
RcScaleTaller ==
    /\ pc = "rc_ratios"
    /\ ~ (FCmp(rc.img_ratio, rc.target_ratio) > 0)
    /\ LET new_width  == Width(rc.target_size)
           new_height == FTrunc(FDiv(FromInt(new_width), rc.img_ratio))
       IN  /\ rc' = [rc EXCEPT !.new_width = new_width, !.new_height = new_height,
                               !.scaled = <<new_width, new_height>>]
           /\ pc' = IF ResizeOk(<<new_width, new_height>>) THEN "rc_taller" ELSE "rc_raised"
    /\ UNCHANGED <<ov, tl, restVars>>

\* top = (new_height - target_height) // 2; crop((0, top, target_width, top + target_height))
RcCropTaller ==
    /\ pc = "rc_taller"
    /\ LET top == (rc.new_height - Height(rc.target_size)) \div 2
           box == <<0, top, Width(rc.target_size), top + Height(rc.target_size)>>
       IN  rc' = [rc EXCEPT !.box = box, !.resized = CropSize(box, rc.scaled)]
    /\ pc' = "rc_cropped"
    /\ UNCHANGED <<ov, tl, restVars>>

\* return resized
RcReturn ==
    /\ pc = "rc_cropped"
    /\ pc' = "rc_done"
    /\ UNCHANGED <<rc, ov, tl, restVars>>

RcNext == RcRatios \/ RcScaleWider \/ RcCropWider \/ RcScaleTaller \/ RcCropTaller \/ RcReturn

SpecCrop == RcInit /\ [][RcNext]_vars

(***************************************************************************)
(* create_three_layer_poster(poster, profile, frame, profile_position,     *)
(*                           output_size, crop_shape)                      *)
(***************************************************************************)
\* profile_position: a key the dict does not have is <<>>, a key with value v is <<v>>
Absent == <<>>

Get(d, key, default) == IF d[key] = Absent THEN default ELSE d[key][1]

\* the float literals of the code
F03  == TrueDiv(3, 10)
F13  == TrueDiv(13, 10)
FOne == FromInt(1)
FTwo == FromInt(2)

PosterSides  == {5 * k : k \in 1..MaxPosterK}
ProfileSides == (MaxProfile - 1)..MaxProfile
ScaleValues  == {TrueDiv(n, 2) : n \in 1..MaxScaleNum}
CropShapes   == {"circle", "square", "rectangle", "hexagon"}
OutputSizes  == {"square_1080", "instagram_story"}
\* the keys x and y of profile_position: both absent, x alone, both given
PositionXY   == {<<Absent, Absent>>, <<<<7>>, Absent>>, <<<<12>>, <<3>>>>}
FrameSize    == <<10, 10>>

\* an exception: its type and its message, str(e)
NoError == [kind |-> "none", message |-> <<>>]

\* the exceptions a stage can raise from outside the computation: PIL failing
\* to read or write an image, requests failing to fetch one
Causes ==
    {[kind |-> "OSError",   message |-> <<"cannot identify image file">>],
     [kind |-> "HTTPError", message |-> <<"404 Client Error">>]}

\* Image.resize refusing a side below 1
ResizeError == [kind |-> "ValueError", message |-> <<"height and width must be > 0">>]

\* except Exception as e: raise ValueError(f"<prefix>{str(e)}")
Reraise(prefix, e) == e

Wrap(prefix, e) == [kind |-> "ValueError", message |-> <<prefix>> \o e.message]

TlPrefix == "Error creating 3-layer poster: "
OvPrefix == "Error processing images: "

\* uuid.uuid4().hex
Tokens == {"a3f1", "9c2e", "07bd"}

\* f"generated/{unique_filename}", unique_filename = f"{token}.{ext}"
FileNameShared(token, ext) == <<"generated", "output", ext>>

FileName(token, ext) == <<"generated", token, ext>>

NoResult == [kind |-> "none", name |-> <<>>, size |-> <<0, 0>>, format |-> "none"]

Image(size, mode) == [size |-> size, mode |-> mode]

\* size_map.get(output_size, (1080, 1080)) of overlay_frame_on_photo
SizeMapNoDefault(output_size) ==
    CASE output_size = "instagram_post"  -> <<1080, 1080>>
      [] output_size = "instagram_story" -> <<1080, 1920>>
      [] output_size = "whatsapp_dp"     -> <<500, 500>>
      [] OTHER                           -> <<0, 0>>

SizeMap(output_size) ==
    CASE output_size = "instagram_post"  -> <<1080, 1080>>
      [] output_size = "instagram_story" -> <<1080, 1920>>
      [] output_size = "whatsapp_dp"     -> <<500, 500>>
      [] OTHER                           -> <<1080, 1080>>

\* target_size = poster.size
PosterTargetFromPreset(poster, output_size) == SizeMap(output_size)

PosterTarget(poster, output_size) == poster.size

\* base_profile_size = int(min(target_size) * 0.3)
BaseProfileSize(target_size) ==
    FTrunc(FMul(FromInt(Min(Width(target_size), Height(target_size))), F03))

\* profile_width = int(base_profile_size * scale), in both branches
ProfileWidth(base_profile_size, scale, crop_shape) ==
    FTrunc(FMul(FromInt(base_profile_size), scale))

\* profile_height = int(base_profile_size * scale * 1.3) for 'rectangle',
\* int(base_profile_size * scale) for every other shape
ProfileHeightSquare(base_profile_size, scale, crop_shape) ==
    FTrunc(FMul(FromInt(base_profile_size), scale))

ProfileHeightPortrait(base_profile_size, scale, crop_shape) ==
    FTrunc(FMul(FMul(FromInt(base_profile_size), scale), F13))

ProfileHeight(base_profile_size, scale, crop_shape) ==
    IF crop_shape = "rectangle"
    THEN FTrunc(FMul(FMul(FromInt(base_profile_size), scale), F13))
    ELSE FTrunc(FMul(FromInt(base_profile_size), scale))

TlInit ==
    /\ pc = "tl_start"
    /\ \E pw \in PosterSides, ph \in PosterSides, fw \in ProfileSides, fh \in ProfileSides,
          sc \in {<<v>> : v \in ScaleValues} \cup {Absent}, shape \in CropShapes, out \in OutputSizes,
          xy \in PositionXY :
         tl = [poster_in        |-> Image(<<pw, ph>>, "RGB"),
               profile_in       |-> Image(<<fw, fh>>, "RGB"),
               frame_in         |-> Image(FrameSize, "RGBA"),
               given            |-> [poster  |-> Image(<<pw, ph>>, "RGB"),
                                     profile |-> Image(<<fw, fh>>, "RGB"),
                                     frame   |-> Image(FrameSize, "RGBA")],
               profile_position |-> [x |-> xy[1], y |-> xy[2], scale |-> sc,
                                     rotation |-> Absent],
               output_size      |-> out,
               crop_shape       |-> shape,
               poster           |-> Image(<<0, 0>>, "none"),
               profile          |-> Image(<<0, 0>>, "none"),
               frame            |-> Image(<<0, 0>>, "none"),
               target_size      |-> <<0, 0>>,
               canvas           |-> Image(<<0, 0>>, "none"),
               x |-> 0, y |-> 0, scale |-> FZero, rotation |-> 0,
               base_profile_size |-> 0,
               profile_width    |-> 0,
               profile_height   |-> 0,
               scale_factor     |-> FZero,
               new_width        |-> 0,
               new_height       |-> 0,
               scaled           |-> <<0, 0>>,
               box              |-> <<0, 0, 0, 0>>,
               profile_resized  |-> Image(<<0, 0>>, "none"),
               mask             |-> [shape |-> "none", size |-> <<0, 0>>],
               profile_masked   |-> Image(<<0, 0>>, "none"),
               paste_x |-> 0, paste_y |-> 0,
               files            |-> {},
               result           |-> NoResult,
               e                |-> NoError,
               error            |-> NoError]
    /\ rc = NoCall
    /\ ov = NoCall
    /\ RestIdle

\* poster = the image; target_size = poster.size; convert unless RGB or RGBA
TlLoadPoster ==
    /\ pc = "tl_start"
    /\ tl' = [tl EXCEPT
                !.target_size = PosterTarget(tl.poster_in, tl.output_size),
                !.poster = Image(tl.poster_in.size,
                                 IF tl.poster_in.mode \in {"RGB", "RGBA"}
                                 THEN tl.poster_in.mode ELSE "RGB")]
    /\ pc' = "tl_poster"
    /\ UNCHANGED <<rc, ov, restVars>>

\* profile and frame are loaded as they are
TlLoadProfileAndFrame ==
    /\ pc = "tl_poster"
    /\ tl' = [tl EXCEPT !.profile = tl.profile_in, !.frame = tl.frame_in]
    /\ pc' = "tl_loaded"
    /\ UNCHANGED <<rc, ov, restVars>>

\* canvas = Image.new('RGBA', target_size); canvas.paste(poster, (0, 0));
\* profile converted to RGBA unless RGB or RGBA
TlCanvas ==
    /\ pc = "tl_loaded"
    /\ tl' = [tl EXCEPT
                !.canvas = Image(tl.target_size, "RGBA"),
                !.profile = Image(tl.profile.size,
                                  IF tl.profile.mode \in {"RGB", "RGBA"}
                                  THEN tl.profile.mode ELSE "RGBA")]
    /\ pc' = "tl_canvas"
    /\ UNCHANGED <<rc, ov, restVars>>

\* x, y, scale, rotation = profile_position.get(...), with their defaults
TlPosition ==
    /\ pc = "tl_canvas"
    /\ tl' = [tl EXCEPT
                !.x = Get(tl.profile_position, "x", Width(tl.target_size) \div 2),
                !.y = Get(tl.profile_position, "y", Height(tl.target_size) \div 2),
                !.scale = Get(tl.profile_position, "scale", FOne),
                !.rotation = Get(tl.profile_position, "rotation", 0)]
    /\ pc' = "tl_position"
    /\ UNCHANGED <<rc, ov, restVars>>

\* base_profile_size, profile_width, profile_height
TlFootprint ==
    /\ pc = "tl_position"
    /\ LET base_profile_size == BaseProfileSize(tl.target_size)
       IN  tl' = [tl EXCEPT
                    !.base_profile_size = base_profile_size,
                    !.profile_width  = ProfileWidth(base_profile_size, tl.scale, tl.crop_shape),
                    !.profile_height = ProfileHeight(base_profile_size, tl.scale, tl.crop_shape)]
    /\ pc' = "tl_footprint"
    /\ UNCHANGED <<rc, ov, restVars>>

\* scale_factor = max(scale_x, scale_y); new_width, new_height; profile.resize(...)
TlCoverResize ==
    /\ pc = "tl_footprint"
    /\ LET scale_x      == TrueDiv(tl.profile_width, Width(tl.profile.size))
           scale_y      == TrueDiv(tl.profile_height, Height(tl.profile.size))
           scale_factor == FMax(scale_x, scale_y)
           new_width    == FTrunc(FMul(FromInt(Width(tl.profile.size)), scale_factor))
           new_height   == FTrunc(FMul(FromInt(Height(tl.profile.size)), scale_factor))
       IN  IF ResizeOk(<<new_width, new_height>>)
           THEN /\ tl' = [tl EXCEPT !.scale_factor = scale_factor,
                                    !.new_width = new_width, !.new_height = new_height,
                                    !.scaled = <<new_width, new_height>>]
                /\ pc' = "tl_resized"
           ELSE /\ tl' = [tl EXCEPT !.scale_factor = scale_factor,
                                    !.new_width = new_width, !.new_height = new_height,
                                    !.e = ResizeError,
                                    !.error = Wrap(TlPrefix, ResizeError)]
                /\ pc' = "tl_raised"
    /\ UNCHANGED <<rc, ov, restVars>>

\* left, top; profile_resized.crop((left, top, left + profile_width, top + profile_height));
\* rotate(rotation, expand=False) keeps the size
TlCrop ==
    /\ pc = "tl_resized"
    /\ LET left == (tl.new_width - tl.profile_width) \div 2
           top  == (tl.new_height - tl.profile_height) \div 2
           box  == <<left, top, left + tl.profile_width, top + tl.profile_height>>
       IN  tl' = [tl EXCEPT !.box = box,
                            !.profile_resized = Image(CropSize(box, tl.scaled), tl.profile.mode)]
    /\ pc' = "tl_cropped"
    /\ UNCHANGED <<rc, ov, restVars>>

\* which mask the crop shape gets: create_circular_mask unless the shape is
\* 'square' or 'rectangle'
MaskShapeKnownOnly(crop_shape) ==
    CASE crop_shape = "circle" -> "circle"
      [] crop_shape \in {"square", "rectangle"} -> "rounded_rectangle"
      [] OTHER -> "rectangle"

MaskShape(crop_shape) ==
    IF crop_shape = "circle" THEN "circle"
    ELSE IF crop_shape = "square" THEN "rounded_rectangle"
    ELSE IF crop_shape = "rectangle" THEN "rounded_rectangle"
    ELSE "circle"

\* the mask of the crop shape; profile_masked = the cropped profile with the
\* mask as its alpha
TlMask ==
    /\ pc = "tl_cropped"
    /\ tl' = [tl EXCEPT
                !.mask = [shape |-> MaskShape(tl.crop_shape),
                          size  |-> <<tl.profile_width, tl.profile_height>>],
                !.profile_masked = Image(<<tl.profile_width, tl.profile_height>>, "RGBA")]
    /\ pc' = "tl_masked"
    /\ UNCHANGED <<rc, ov, restVars>>

\* paste_x = int(x - profile_width // 2), and the same for y: the corner of
\* the footprint whose center is x
PasteOriginCorner(center, side) == center

PasteOrigin(center, side) == center - side \div 2

\* paste_x, paste_y; canvas.paste(profile_masked, (paste_x, paste_y), profile_masked)
TlPaste ==
    /\ pc = "tl_masked"
    /\ tl' = [tl EXCEPT !.paste_x = PasteOrigin(tl.x, tl.profile_width),
                        !.paste_y = PasteOrigin(tl.y, tl.profile_height)]
    /\ pc' = "tl_pasted"
    /\ UNCHANGED <<rc, ov, restVars>>

\* frame converted to RGBA and resized to target_size; canvas.paste(frame, (0, 0), frame)
TlFrame ==
    /\ pc = "tl_pasted"
    /\ tl' = [tl EXCEPT !.frame = Image(tl.target_size, "RGBA")]
    /\ pc' = "tl_framed"
    /\ UNCHANGED <<rc, ov, restVars>>

\* rgb_canvas = Image.new('RGB', canvas.size, white); paste; canvas = rgb_canvas
TlFlatten ==
    /\ pc = "tl_framed"
    /\ tl' = [tl EXCEPT !.canvas = Image(tl.canvas.size, "RGB")]
    /\ pc' = "tl_flat"
    /\ UNCHANGED <<rc, ov, restVars>>

\* unique_filename = f"{uuid.uuid4().hex}.jpg"; canvas.save(buffer, 'JPEG');
\* return ContentFile(buffer.getvalue(), name=f"generated/{unique_filename}")
TlReturn ==
    /\ pc = "tl_flat"
    /\ \E token \in Tokens :
         tl' = [tl EXCEPT !.result = [kind |-> "ContentFile", name |-> FileName(token, "jpg"),
                                      size |-> tl.canvas.size, format |-> "JPEG"]]
    /\ pc' = "tl_done"
    /\ UNCHANGED <<rc, ov, restVars>>

\* the positions from which a stage of create_three_layer_poster runs
TlStages ==
    {"tl_start", "tl_poster", "tl_loaded", "tl_canvas", "tl_position", "tl_footprint",
     "tl_resized", "tl_cropped", "tl_masked", "tl_pasted", "tl_framed", "tl_flat"}

\* the stage that runs next raises: except Exception as e: raise ValueError(...)
TlRaise ==
    /\ pc \in TlStages
    /\ \E cause \in Causes :
         tl' = [tl EXCEPT !.e = cause, !.error = Wrap(TlPrefix, cause)]
    /\ pc' = "tl_raised"
    /\ UNCHANGED <<rc, ov, restVars>>

TlNext ==
    \/ TlLoadPoster \/ TlLoadProfileAndFrame \/ TlCanvas \/ TlPosition \/ TlFootprint
    \/ TlCoverResize \/ TlCrop \/ TlMask \/ TlPaste \/ TlFrame \/ TlFlatten \/ TlReturn

SpecPoster == TlInit /\ [][TlNext]_vars

(***************************************************************************)
(* overlay_frame_on_photo(user_photo_path, frame_path_or_url, output_size) *)
(*                                                                         *)
(* An image is its size, its mode and the pixel at one coordinate, the     *)
(* same coordinate in every image of a call: every step of the function    *)
(* after the resize works on each coordinate by itself.  rgb is the colour *)
(* of the pixel, a its alpha (255 in a mode without alpha).                *)
(***************************************************************************)
Colours == {<<0, 0, 0>>, <<10, 128, 250>>}
Alphas  == {0, 128, 255}

HasAlpha(mode) == mode \in {"RGBA", "LA"}

Pic(size, mode, rgb, a) == [size |-> size, mode |-> mode, rgb |-> rgb, a |-> a]

NoPic == Pic(<<0, 0>>, "none", <<0, 0, 0>>, 0)

\* the pixels an image of this mode can hold
PixelsOf(mode) == {<<c, a>> : c \in Colours, a \in IF HasAlpha(mode) THEN Alphas ELSE {255}}

OvOutputSizes == {"instagram_post", "instagram_story", "whatsapp_dp", "unknown_value"}
OvPhotoSizes  == {<<1080, 1080>>, <<640, 480>>}
OvFrameSizes  == {<<1080, 1080>>, <<500, 500>>}
OvPhotoModes  == {"RGB", "RGBA", "LA"}
OvFrameModes  == {"RGBA", "RGB"}

\* im.convert(mode): the colour stays, the alpha stays if both modes have one
Convert(im, mode) ==
    Pic(im.size, mode, im.rgb, IF HasAlpha(mode) /\ HasAlpha(im.mode) THEN im.a ELSE 255)

\* the size of an image after: if im.size != target_size: im = im.resize(target_size)
SizeKept(size, target_size) == size

SizeAfterResize(size, target_size) == IF size /= target_size THEN target_size ELSE size

\* Pillow's division by 255 of the blend
Div255(a) == (((a + 128) \div 256) + (a + 128)) \div 256

\* one band of Image.paste(im, box, mask): in1 the band below, in2 the band pasted
Blend(mask, in1, in2) == Div255(in1 * (255 - mask) + in2 * mask)

\* base.paste(top, (0, 0), top) at one pixel, both RGBA: every band, alpha
\* included, is blended with the alpha of top as the mask
PasteUnmasked(base, top) == Pic(base.size, base.mode, top.rgb, top.a)

PasteColourOnly(base, top) ==
    Pic(base.size, base.mode,
        <<Blend(top.a, base.rgb[1], top.rgb[1]),
          Blend(top.a, base.rgb[2], top.rgb[2]),
          Blend(top.a, base.rgb[3], top.rgb[3])>>,
        base.a)

PasteMasked(base, top) ==
    Pic(base.size, base.mode,
        <<Blend(top.a, base.rgb[1], top.rgb[1]),
          Blend(top.a, base.rgb[2], top.rgb[2]),
          Blend(top.a, base.rgb[3], top.rgb[3])>>,
        Blend(top.a, base.a, top.a))

OvInit ==
    /\ pc = "ov_start"
    /\ \E out \in OvOutputSizes, psize \in OvPhotoSizes, pmode \in OvPhotoModes,
          fsize \in OvFrameSizes, fmode \in OvFrameModes, cloud \in BOOLEAN :
         \E ppx \in PixelsOf(pmode), fpx \in PixelsOf(fmode) :
           ov = [user_photo_path   |-> Pic(psize, pmode, ppx[1], ppx[2]),
                 frame_path_or_url |-> Pic(fsize, fmode, fpx[1], fpx[2]),
                 given             |-> [photo |-> Pic(psize, pmode, ppx[1], ppx[2]),
                                        frame |-> Pic(fsize, fmode, fpx[1], fpx[2])],
                 output_size       |-> out,
                 target_size       |-> <<0, 0>>,
                 user_photo        |-> NoPic,
                 photo_is_arg      |-> FALSE,
                 frame             |-> NoPic,
                 final_image       |-> NoPic,
                 final_is_arg      |-> FALSE,
                 using_cloudinary  |-> cloud,
                 unique_filename   |-> <<>>,
                 files             |-> {},
                 result            |-> NoResult,
                 e                 |-> NoError,
                 error             |-> NoError]
    /\ rc = NoCall
    /\ tl = NoCall
    /\ RestIdle

\* target_size = size_map.get(output_size, (1080, 1080))
OvTarget ==
    /\ pc = "ov_start"
    /\ ov' = [ov EXCEPT !.target_size = SizeMap(ov.output_size)]
    /\ pc' = "ov_target"
    /\ UNCHANGED <<rc, tl, restVars>>

\* user_photo = user_photo_path, the image object of the caller itself
\* (photo_is_arg); the frame is opened from its path or URL
OvLoad ==
    /\ pc = "ov_target"
    /\ ov' = [ov EXCEPT !.user_photo = ov.user_photo_path, !.photo_is_arg = TRUE,
                        !.frame = ov.frame_path_or_url]
    /\ pc' = "ov_loaded"
    /\ UNCHANGED <<rc, tl, restVars>>

\* user_photo converted to RGB unless RGB or RGBA, then resized to target_size
\* unless it has that size; a resized pixel is any pixel of the mode
OvPhoto ==
    /\ pc = "ov_loaded"
    /\ LET photo == IF ov.user_photo.mode \in {"RGB", "RGBA"}
                    THEN ov.user_photo ELSE Convert(ov.user_photo, "RGB")
           size  == SizeAfterResize(photo.size, ov.target_size)
       IN  IF photo.size = ov.target_size
           THEN /\ ov' = [ov EXCEPT !.user_photo = photo,
                                    !.photo_is_arg = ov.user_photo.mode \in {"RGB", "RGBA"}]
                /\ pc' = "ov_photo"
           ELSE IF ResizeOk(ov.target_size)
           THEN /\ \E px \in PixelsOf(photo.mode) :
                     ov' = [ov EXCEPT !.user_photo = Pic(size, photo.mode, px[1], px[2]),
                                      !.photo_is_arg = FALSE]
                /\ pc' = "ov_photo"
           ELSE /\ ov' = [ov EXCEPT !.e = ResizeError, !.error = Wrap(OvPrefix, ResizeError)]
                /\ pc' = "ov_raised"
    /\ UNCHANGED <<rc, tl, restVars>>

\* frame converted to RGBA unless RGBA, then resized to target_size unless it
\* has that size
OvFrame ==
    /\ pc = "ov_photo"
    /\ LET frame == IF ov.frame.mode /= "RGBA" THEN Convert(ov.frame, "RGBA") ELSE ov.frame
       IN  IF frame.size = ov.target_size
           THEN /\ ov' = [ov EXCEPT !.frame = frame]
                /\ pc' = "ov_frame"
           ELSE IF ResizeOk(ov.target_size)
           THEN /\ \E px \in PixelsOf("RGBA") :
                     ov' = [ov EXCEPT !.frame = Pic(ov.target_size, "RGBA", px[1], px[2])]
                /\ pc' = "ov_frame"
           ELSE /\ ov' = [ov EXCEPT !.e = ResizeError, !.error = Wrap(OvPrefix, ResizeError)]
                /\ pc' = "ov_raised"
    /\ UNCHANGED <<rc, tl, restVars>>

\* whether final_image = user_photo makes final_image the object of the caller
FinalIsArg(mode, photo_is_arg) == mode = "RGBA" /\ photo_is_arg

\* final_image = user_photo if it is RGBA (the same object, no copy), else a
\* new RGBA image of target_size with user_photo pasted at (0, 0)
OvCanvas ==
    /\ pc = "ov_frame"
    /\ ov' = [ov EXCEPT !.final_image =
                IF ov.user_photo.mode = "RGBA"
                THEN ov.user_photo
                ELSE Pic(ov.target_size, "RGBA", ov.user_photo.rgb, 255),
                        !.final_is_arg = FinalIsArg(ov.user_photo.mode, ov.photo_is_arg)]
    /\ pc' = "ov_canvas"
    /\ UNCHANGED <<rc, tl, restVars>>

\* final_image.paste(frame, (0, 0), frame), in place: where final_image is
\* the object of the caller, user_photo and user_photo_path change with it
OvPaste ==
    /\ pc = "ov_canvas"
    /\ LET pasted == PasteMasked(ov.final_image, ov.frame)
       IN  ov' = [ov EXCEPT
                    !.final_image = pasted,
                    !.user_photo = IF ov.final_is_arg THEN pasted ELSE ov.user_photo,
                    !.user_photo_path = IF ov.final_is_arg THEN pasted ELSE ov.user_photo_path]
    /\ pc' = "ov_pasted"
    /\ UNCHANGED <<rc, tl, restVars>>

\* unique_filename = f"{uuid.uuid4().hex}.png"
OvName ==
    /\ pc = "ov_pasted"
    /\ \E token \in Tokens : ov' = [ov EXCEPT !.unique_filename = FileName(token, "png")]
    /\ pc' = "ov_named"
    /\ UNCHANGED <<rc, tl, restVars>>

\* with Cloudinary: save to a buffer, return ContentFile(..., name=generated/...);
\* else: final_image.save(full_path, 'PNG'); return relative_path
OvReturn ==
    /\ pc = "ov_named"
    /\ ov' = [ov EXCEPT
                !.files = IF ov.using_cloudinary THEN ov.files
                          ELSE ov.files \cup {ov.unique_filename},
                !.result = [kind   |-> IF ov.using_cloudinary THEN "ContentFile" ELSE "path",
                            name   |-> ov.unique_filename,
                            size   |-> ov.final_image.size,
                            format |-> "PNG"]]
    /\ pc' = "ov_done"
    /\ UNCHANGED <<rc, tl, restVars>>

\* the positions from which a stage of overlay_frame_on_photo runs
OvStages ==
    {"ov_start", "ov_target", "ov_loaded", "ov_photo", "ov_frame", "ov_canvas",
     "ov_pasted", "ov_named"}

\* final_image.save(full_path) failing: Pillow closes and removes the file
\* it had created
FilesAfterFailedSave(files, name) == files \ {name}

\* the stage that runs next raises: except Exception as e: raise ValueError(...)
OvRaiseRetry ==
    /\ pc \in OvStages \ {"ov_start"}
    /\ pc' = "ov_start"
    /\ UNCHANGED <<rc, ov, tl, restVars>>

OvRaise ==
    /\ pc \in OvStages
    /\ \E cause \in Causes :
         ov' = [ov EXCEPT
                  !.e = cause,
                  !.error = Wrap(OvPrefix, cause),
                  !.files = IF pc = "ov_named" /\ ~ov.using_cloudinary
                            THEN FilesAfterFailedSave(ov.files, ov.unique_filename)
                            ELSE ov.files]
    /\ pc' = "ov_raised"
    /\ UNCHANGED <<rc, tl, restVars>>

OvNext ==
    OvTarget \/ OvLoad \/ OvPhoto \/ OvFrame \/ OvCanvas \/ OvPaste \/ OvName \/ OvReturn

SpecOverlay == OvInit /\ [][OvNext]_vars

(***************************************************************************)
(* The three functions together.                                           *)
(***************************************************************************)
Init == RcInit \/ OvInit \/ TlInit

Next == RcNext \/ OvNext \/ TlNext

Spec == Init /\ [][Next]_vars

\* the two compositors with the failures of their stages
SpecFailing == (OvInit \/ TlInit) /\ [][OvNext \/ OvRaise \/ TlNext \/ TlRaise]_vars

(***************************************************************************)
(* create_three_layer_poster at one coordinate of the canvas.              *)
(*                                                                         *)
(* SpecPoster follows the sizes of the layers; this part follows the       *)
(* pixel at one coordinate through the same steps.  where says how the     *)
(* coordinate lies to the pasted profile: "inside" the footprint where the *)
(* mask is 255, in a "corner" of the footprint where the mask is 0, or     *)
(* "outside" the footprint.  ly.profile is the pixel of the resized and    *)
(* cropped profile that falls on the coordinate, ly.frame the pixel of     *)
(* the frame once it has the size of the canvas.                           *)
(***************************************************************************)
OnePixel == <<1, 1>>

LyPosterModes  == {"RGB", "RGBA", "LA"}
LyProfileModes == {"RGB", "RGBA", "LA"}
LyFrameModes   == {"RGBA", "RGB"}
LyWhere        == {"inside", "corner", "outside"}

\* base.paste(top, (0, 0)) without a mask: the pixel of top, in the mode of base
PasteCopy(base, top) ==
    Pic(base.size, base.mode, top.rgb, IF HasAlpha(top.mode) THEN top.a ELSE 255)

\* the value of the mask at the coordinate
MaskAt(where) == IF where = "inside" THEN 255 ELSE 0

\* im.putalpha(mask): the alpha of im becomes the value of the mask
PutAlphaKeep(im, value) == im

PutAlpha(im, value) == Pic(im.size, im.mode, im.rgb, value)

\* rgb_canvas = Image.new('RGB', size, white);
\* rgb_canvas.paste(canvas, mask=canvas.split()[3])
FlattenDrop(canvas) == Pic(canvas.size, "RGB", canvas.rgb, 255)

Flatten(canvas) ==
    Pic(canvas.size, "RGB",
        <<Blend(canvas.a, 255, canvas.rgb[1]),
          Blend(canvas.a, 255, canvas.rgb[2]),
          Blend(canvas.a, 255, canvas.rgb[3])>>,
        255)

LyInit ==
    /\ pc = "ly_start"
    /\ \E pmode \in LyPosterModes, fmode \in LyProfileModes, rmode \in LyFrameModes,
          where \in LyWhere :
         \E ppx \in PixelsOf(pmode), fpx \in PixelsOf(fmode), rpx \in PixelsOf(rmode) :
           ly = [poster_in      |-> Pic(OnePixel, pmode, ppx[1], ppx[2]),
                 profile_in     |-> Pic(OnePixel, fmode, fpx[1], fpx[2]),
                 frame_in       |-> Pic(OnePixel, rmode, rpx[1], rpx[2]),
                 where          |-> where,
                 poster         |-> NoPic,
                 profile        |-> NoPic,
                 frame          |-> NoPic,
                 canvas         |-> NoPic,
                 mask           |-> 0,
                 profile_masked |-> NoPic,
                 result         |-> NoPic]
    /\ rc = NoCall /\ ov = NoCall /\ tl = NoCall
    /\ mk = NoCall /\ cc = NoCall /\ fs = NoCall /\ b64 = NoCall
    /\ sr = NoCall /\ db = NoCall

\* poster converted to RGB unless RGB or RGBA; canvas = Image.new('RGBA', ...);
\* canvas.paste(poster, (0, 0))
LyCanvas ==
    /\ pc = "ly_start"
    /\ LET poster == IF ly.poster_in.mode \in {"RGB", "RGBA"}
                     THEN ly.poster_in ELSE Convert(ly.poster_in, "RGB")
       IN  ly' = [ly EXCEPT !.poster = poster,
                            !.canvas = PasteCopy(Pic(OnePixel, "RGBA", <<0, 0, 0>>, 0), poster)]
    /\ pc' = "ly_canvas"
    /\ UNCHANGED <<rc, ov, tl, mk, cc, fs, b64, sr, db>>

\* profile converted to RGBA unless RGB or RGBA; profile_masked = Image.new('RGBA', ...,
\* (0, 0, 0, 0)); profile_masked.paste(profile_resized, (0, 0)); profile_masked.putalpha(mask)
LyMask ==
    /\ pc = "ly_canvas"
    /\ LET profile == IF ly.profile_in.mode \in {"RGB", "RGBA"}
                      THEN ly.profile_in ELSE Convert(ly.profile_in, "RGBA")
           pasted  == PasteCopy(Pic(OnePixel, "RGBA", <<0, 0, 0>>, 0), profile)
       IN  ly' = [ly EXCEPT !.profile = profile,
                            !.mask = MaskAt(ly.where),
                            !.profile_masked = PutAlpha(pasted, MaskAt(ly.where))]
    /\ pc' = "ly_masked"
    /\ UNCHANGED <<rc, ov, tl, mk, cc, fs, b64, sr, db>>

\* canvas.paste(profile_masked, (paste_x, paste_y), profile_masked): only the
\* coordinates of the footprint change
LyPasteProfile ==
    /\ pc = "ly_masked"
    /\ ly' = [ly EXCEPT !.canvas = IF ly.where = "outside"
                                   THEN ly.canvas
                                   ELSE PasteMasked(ly.canvas, ly.profile_masked)]
    /\ pc' = "ly_pasted"
    /\ UNCHANGED <<rc, ov, tl, mk, cc, fs, b64, sr, db>>

\* frame converted to RGBA unless RGBA (and resized); canvas.paste(frame, (0, 0), frame)
LyFrame ==
    /\ pc = "ly_pasted"
    /\ LET frame == IF ly.frame_in.mode /= "RGBA"
                    THEN Convert(ly.frame_in, "RGBA") ELSE ly.frame_in
       IN  ly' = [ly EXCEPT !.frame = frame, !.canvas = PasteMasked(ly.canvas, frame)]
    /\ pc' = "ly_framed"
    /\ UNCHANGED <<rc, ov, tl, mk, cc, fs, b64, sr, db>>

\* the canvas flattened on white: the image that is then encoded
LyFlatten ==
    /\ pc = "ly_framed"
    /\ ly' = [ly EXCEPT !.result = Flatten(ly.canvas)]
    /\ pc' = "ly_flat"
    /\ UNCHANGED <<rc, ov, tl, mk, cc, fs, b64, sr, db>>

LyNext == LyCanvas \/ LyMask \/ LyPasteProfile \/ LyFrame \/ LyFlatten

SpecLayers == LyInit /\ [][LyNext]_vars

(***************************************************************************)
(* Calls of overlay_frame_on_photo running at the same time, as the        *)
(* requests of a threaded server do.  Each call has its own photo and      *)
(* frame objects; what the calls share is the directory generated/ and     *)
(* the source of tokens.  The composition works on the call's own images   *)
(* only and is one step here; naming and saving are steps of their own.    *)
(* uuid4 draws 122 random bits: a token drawn twice is not modelled.       *)
(***************************************************************************)
Calls == 1..MaxCalls

CcPhotos ==
    {Pic(<<1080, 1080>>, "RGB", <<0, 0, 0>>, 255),
     Pic(<<1080, 1080>>, "RGBA", <<10, 128, 250>>, 128)}

CcFrames ==
    {Pic(<<1080, 1080>>, "RGBA", <<10, 128, 250>>, 128),
     Pic(<<1080, 1080>>, "RGBA", <<0, 0, 0>>, 255)}

\* the composite of a photo and a frame that have the target size
Compose(photo, frame) ==
    LET final_image == IF photo.mode = "RGBA" THEN photo
                       ELSE Pic(photo.size, "RGBA", photo.rgb, 255)
    IN  PasteMasked(final_image, frame)

\* final_image.save(full_path): the file of that name now holds the image
WriteFile(files, name, image) == {f \in files : f[1] /= name} \cup {<<name, image>>}

CcInit ==
    /\ pc = "cc"
    /\ \E cloud \in BOOLEAN, photos \in [Calls -> CcPhotos], frames \in [Calls -> CcFrames] :
         cc = [using_cloudinary |-> cloud,
               issued |-> {},
               files  |-> {},
               call   |-> [c \in Calls |->
                             [pc |-> "start", user_photo |-> photos[c], frame |-> frames[c],
                              final_image |-> NoPic, unique_filename |-> <<>>,
                              result |-> NoResult]]]
    /\ rc = NoCall /\ ov = NoCall /\ tl = NoCall
    /\ ly = NoCall /\ mk = NoCall /\ fs = NoCall /\ b64 = NoCall
    /\ sr = NoCall /\ db = NoCall

\* the call composes its own images
CcCompose(c) ==
    /\ cc.call[c].pc = "start"
    /\ cc' = [cc EXCEPT !.call[c].final_image = Compose(cc.call[c].user_photo, cc.call[c].frame),
                        !.call[c].pc = "composed"]
    /\ UNCHANGED <<pc, rc, ov, tl, ly, mk, fs, b64, sr, db>>

\* unique_filename = f"{uuid.uuid4().hex}.png"
CcName(c) ==
    /\ cc.call[c].pc = "composed"
    /\ \E token \in Tokens \ cc.issued :
         cc' = [cc EXCEPT !.issued = cc.issued \cup {token},
                          !.call[c].unique_filename = FileName(token, "png"),
                          !.call[c].pc = "named"]
    /\ UNCHANGED <<pc, rc, ov, tl, ly, mk, fs, b64, sr, db>>

\* the image is saved under its name (local storage) or returned in a buffer
CcSave(c) ==
    /\ cc.call[c].pc = "named"
    /\ cc' = [cc EXCEPT
                !.files = IF cc.using_cloudinary THEN cc.files
                          ELSE WriteFile(cc.files, cc.call[c].unique_filename,
                                         cc.call[c].final_image),
                !.call[c].result =
                    [kind   |-> IF cc.using_cloudinary THEN "ContentFile" ELSE "path",
                     name   |-> cc.call[c].unique_filename,
                     size   |-> cc.call[c].final_image.size,
                     format |-> "PNG"],
                !.call[c].pc = "done"]
    /\ UNCHANGED <<pc, rc, ov, tl, ly, mk, fs, b64, sr, db>>

CcNext == \E c \in Calls : CcCompose(c) \/ CcName(c) \/ CcSave(c)

SpecConcurrent == CcInit /\ [][CcNext]_vars

(***************************************************************************)
(* The frame of a campaign: GenerateImageView.post (views.py) and          *)
(* CampaignSerializer.get_frame_url (serializers.py).                      *)
(*                                                                         *)
(* fs.frames are the rows of CampaignFrame that belong to the campaign;    *)
(* a key of FrameIds without a row here belongs to another campaign or to  *)
(* no frame.  CampaignFrame.Meta.ordering is ['order', 'created_at'].      *)
(***************************************************************************)
FrameIds == 1..MaxFrames

None == [kind |-> "None"]

\* request.data.get('frame_id'): <<>> when absent, else <<k>> with k zero or a key
FrameIdValues == {<<>>} \cup {<<k>> : k \in 0..(MaxFrames + 1)}

\* if frame_id:
Truthy(frame_id) == frame_id /= <<>> /\ frame_id[1] /= 0

\* a sorts before b under Meta.ordering
Before(a, b) == a.order < b.order \/ (a.order = b.order /\ a.created_at < b.created_at)

\* queryset.first()
FirstByKey(rows) ==
    IF rows = {} THEN None
    ELSE CHOOSE a \in rows : \A b \in rows : a.id <= b.id

First(rows) ==
    IF rows = {} THEN None
    ELSE CHOOSE a \in rows : \A b \in rows \ {a} : Before(a, b)

\* frames.filter(is_default=True).first() or frames.first()
DefaultOrFirst(rows) ==
    LET default_frame == First({f \in rows : f.is_default})
    IN  IF default_frame /= None THEN default_frame ELSE First(rows)

\* the frame of GenerateImageView.post
ViewFrame(rows, frame_id) ==
    IF Truthy(frame_id)
    THEN IF \E f \in rows : f.id = frame_id[1]
         THEN CHOOSE f \in rows : f.id = frame_id[1]
         ELSE DefaultOrFirst(rows)
    ELSE DefaultOrFirst(rows)

FsInit ==
    /\ pc = "fs_start"
    /\ \E here \in [FrameIds -> BOOLEAN], order \in [FrameIds -> 0..1],
          is_default \in [FrameIds -> BOOLEAN], newest_first \in BOOLEAN,
          legacy \in BOOLEAN, frame_id \in FrameIdValues :
         fs = [frames |-> {[id |-> i, order |-> order[i],
                            created_at |-> IF newest_first THEN MaxFrames + 1 - i ELSE i,
                            is_default |-> is_default[i]] : i \in {k \in FrameIds : here[k]}},
               frame_image |-> legacy,
               frame_id    |-> frame_id,
               frame       |-> None,
               used        |-> None,
               response    |-> 0,
               frame_url   |-> None]
    /\ rc = NoCall /\ ov = NoCall /\ tl = NoCall
    /\ ly = NoCall /\ mk = NoCall /\ cc = NoCall /\ b64 = NoCall
    /\ sr = NoCall /\ db = NoCall

\* GenerateImageView.post: the frame of the request, 400 without any frame,
\* else frame_image = frame.frame_image if frame else campaign.frame_image
FsGenerate ==
    /\ pc = "fs_start"
    /\ LET frame == ViewFrame(fs.frames, fs.frame_id)
       IN  fs' = [fs EXCEPT
                    !.frame = frame,
                    !.response = IF frame = None /\ ~fs.frame_image THEN 400 ELSE 200,
                    !.used = IF frame /= None THEN [kind |-> "frame", id |-> frame.id]
                             ELSE IF fs.frame_image THEN [kind |-> "campaign.frame_image"]
                             ELSE None]
    /\ pc' = "fs_generated"
    /\ UNCHANGED <<rc, ov, tl, ly, mk, cc, b64, sr, db>>

\* CampaignSerializer.get_frame_url: the default frame, else the first
\* frame, else the campaign's own frame_image, else None
FsFrameUrl ==
    /\ pc = "fs_generated"
    /\ LET default_frame == First({f \in fs.frames : f.is_default})
           first_frame   == First(fs.frames)
       IN  fs' = [fs EXCEPT !.frame_url =
                    IF default_frame /= None THEN [kind |-> "frame", id |-> default_frame.id]
                    ELSE IF first_frame /= None THEN [kind |-> "frame", id |-> first_frame.id]
                    ELSE IF fs.frame_image THEN [kind |-> "campaign.frame_image"]
                    ELSE None]
    /\ pc' = "fs_done"
    /\ UNCHANGED <<rc, ov, tl, ly, mk, cc, b64, sr, db>>

FsNext == FsGenerate \/ FsFrameUrl

SpecFrames == FsInit /\ [][FsNext]_vars

(***************************************************************************)
(* process_base64_image(base64_data).                                      *)
(*                                                                         *)
(* A text is a sequence of characters.  "Q", "k" and "0" are characters of *)
(* the base64 alphabet (sextets 16, 36 and 52), "=" is the pad, and "," and *)
(* ";" are outside the alphabet.  The decoded bytes stand for the head of  *)
(* a file; Image.open identifies the file by its first bytes, here the     *)
(* "BM" of a bitmap, which is what "Qk0=" decodes to.                      *)
(***************************************************************************)
Chars == {"Q", "k", "0", "=", ",", ";"}

RECURSIVE TextsOfLen(_)
TextsOfLen(n) ==
    IF n = 0 THEN {<<>>}
    ELSE {Append(t, ch) : t \in TextsOfLen(n - 1), ch \in Chars}

Has(text, ch) == \E i \in 1..Len(text) : text[i] = ch

\* base64_data.split(',')[-1]
AfterLastComma(text) ==
    LET k == CHOOSE i \in 1..Len(text) :
                 text[i] = "," /\ \A j \in (i + 1)..Len(text) : text[j] /= ","
    IN  SubSeq(text, k + 1, Len(text))

\* base64_data.split(',', 1)[1]
AfterFirstComma(text) ==
    LET k == CHOOSE i \in 1..Len(text) :
                 text[i] = "," /\ \A j \in 1..(i - 1) : text[j] /= ","
    IN  SubSeq(text, k + 1, Len(text))

\* if ',' in base64_data: base64_data = base64_data.split(',', 1)[1]
StripPrefix(text) == IF Has(text, ",") THEN AfterFirstComma(text) ELSE text

\* the value of a character in the base64 alphabet, 64 outside it
Sextet(ch) ==
    CASE ch = "Q" -> 16
      [] ch = "k" -> 36
      [] ch = "0" -> 52
      [] OTHER    -> 64

BinasciiError(message) == [kind |-> "binascii.Error", message |-> <<message>>]

\* base64.b64decode(s) with validate=False: characters outside the alphabet
\* are discarded, a pad that completes a quad ends the data, and data that
\* ends inside a quad is an error
RECURSIVE A2bBase64(_, _, _, _, _, _)
A2bBase64(text, i, quad_pos, leftchar, pads, bin) ==
    IF i > Len(text)
    THEN IF quad_pos = 0 THEN [ok |-> TRUE, bytes |-> bin]
         ELSE IF quad_pos = 1
              THEN [ok |-> FALSE, e |-> BinasciiError("Invalid base64-encoded string")]
              ELSE [ok |-> FALSE, e |-> BinasciiError("Incorrect padding")]
    ELSE IF text[i] = "="
    THEN IF quad_pos >= 2 /\ quad_pos + pads + 1 >= 4
         THEN [ok |-> TRUE, bytes |-> bin]
         ELSE A2bBase64(text, i + 1, quad_pos, leftchar,
                        IF quad_pos >= 2 THEN pads + 1 ELSE pads, bin)
    ELSE IF Sextet(text[i]) >= 64
    THEN A2bBase64(text, i + 1, quad_pos, leftchar, pads, bin)
    ELSE LET this_ch == Sextet(text[i])
         IN  CASE quad_pos = 0 ->
                    A2bBase64(text, i + 1, 1, this_ch, 0, bin)
               [] quad_pos = 1 ->
                    A2bBase64(text, i + 1, 2, this_ch % 16, 0,
                              Append(bin, leftchar * 4 + this_ch \div 16))
               [] quad_pos = 2 ->
                    A2bBase64(text, i + 1, 3, this_ch % 4, 0,
                              Append(bin, leftchar * 16 + this_ch \div 4))
               [] OTHER ->
                    A2bBase64(text, i + 1, 0, 0, 0,
                              Append(bin, leftchar * 64 + this_ch))

B64Decode(text) == A2bBase64(text, 1, 0, 0, 0, <<>>)

\* the first bytes of a file Image.open identifies: "BM"
Magic == <<66, 77>>

\* Image.open(BytesIO(image_data))
ImageOpen(bytes) ==
    IF Len(bytes) >= Len(Magic) /\ SubSeq(bytes, 1, Len(Magic)) = Magic
    THEN [ok |-> TRUE, image |-> [kind |-> "Image", data |-> bytes]]
    ELSE [ok |-> FALSE,
          e |-> [kind |-> "UnidentifiedImageError", message |-> <<"cannot identify image file">>]]

B64Prefix == "Invalid base64 image data: "

NoImage == [kind |-> "none", data |-> <<>>]

B64Call(text) ==
    [at |-> "called", given |-> text, base64_data |-> text, image_data |-> <<>>,
     image |-> NoImage, error |-> NoError]

\* two calls: one on prefix + ',' + payload, one on the payload alone
B64Init ==
    /\ pc = "b64"
    /\ \E n \in 0..(MaxText - 1) :
         \E m \in 0..(MaxText - 1 - n) :
           \E prefix \in {t \in TextsOfLen(n) : ~Has(t, ",")}, payload \in TextsOfLen(m) :
             b64 = [prefix  |-> prefix,
                    payload |-> payload,
                    calls   |-> <<B64Call(prefix \o <<",">> \o payload), B64Call(payload)>>]
    /\ rc = NoCall /\ ov = NoCall /\ tl = NoCall
    /\ ly = NoCall /\ mk = NoCall /\ cc = NoCall /\ fs = NoCall
    /\ sr = NoCall /\ db = NoCall

\* lines 29-30: the data-URL prefix is removed
B64Strip(c) ==
    /\ pc = "b64"
    /\ b64.calls[c].at = "called"
    /\ b64' = [b64 EXCEPT !.calls[c].base64_data = StripPrefix(@),
                          !.calls[c].at = "stripped"]
    /\ UNCHANGED <<pc, rc, ov, tl, ly, mk, cc, fs, sr, db>>

\* line 33: base64.b64decode, a failure leaves as a ValueError (lines 40-41)
B64DecodeStep(c) ==
    /\ pc = "b64"
    /\ b64.calls[c].at = "stripped"
    /\ LET decoded == B64Decode(b64.calls[c].base64_data)
       IN  b64' = IF decoded.ok
                  THEN [b64 EXCEPT !.calls[c].image_data = decoded.bytes,
                                   !.calls[c].at = "decoded"]
                  ELSE [b64 EXCEPT !.calls[c].error = Wrap(B64Prefix, decoded.e),
                                   !.calls[c].at = "raised"]
    /\ UNCHANGED <<pc, rc, ov, tl, ly, mk, cc, fs, sr, db>>

\* lines 36-38: Image.open and return, a failure leaves as a ValueError
B64Open(c) ==
    /\ pc = "b64"
    /\ b64.calls[c].at = "decoded"
    /\ LET opened == ImageOpen(b64.calls[c].image_data)
       IN  b64' = IF opened.ok
                  THEN [b64 EXCEPT !.calls[c].image = opened.image,
                                   !.calls[c].at = "returned"]
                  ELSE [b64 EXCEPT !.calls[c].error = Wrap(B64Prefix, opened.e),
                                   !.calls[c].at = "raised"]
    /\ UNCHANGED <<pc, rc, ov, tl, ly, mk, cc, fs, sr, db>>

B64Next == \E c \in 1..2 : B64Strip(c) \/ B64DecodeStep(c) \/ B64Open(c)

SpecBase64 == B64Init /\ [][B64Next]_vars

(***************************************************************************)
(* The image sources of the two compositors: how each layer is loaded.     *)
(*                                                                         *)
(* A source is a decoded image or a string; a string is a sequence of      *)
(* characters.  SrLocalFiles are the paths of image files on disk,         *)
(* SrRemote the URLs that answer with an image.                            *)
(***************************************************************************)
SrHttp  == <<"h", "t", "t", "p", ":", "/", "/">>
SrHttps == <<"h", "t", "t", "p", "s", ":", "/", "/">>

SrLocalFiles == {<<"/", "a">>}
SrRemote     == {SrHttp \o <<"a">>, SrHttps \o <<"a">>}

SrStrings ==
    SrLocalFiles \cup SrRemote
    \cup {<<"H", "T", "T", "P", ":", "/", "/", "a">>,
          <<"h", "t", "t", "p", ":", "/", "a">>,
          <<"f", "t", "p", ":", "/", "/", "a">>}

SrSources ==
    {[kind |-> "Image", text |-> <<>>]} \cup {[kind |-> "str", text |-> t] : t \in SrStrings}

\* text.startswith(prefix)
StartsWith(text, prefix) ==
    Len(text) >= Len(prefix) /\ SubSeq(text, 1, Len(prefix)) = prefix

\* isinstance(s, str) and s.startswith('http')
IsUrlLoose(source) ==
    source.kind = "str" /\ StartsWith(source.text, <<"h", "t", "t", "p">>)

\* isinstance(s, str) and (s.startswith('http://') or s.startswith('https://'))
IsUrl(source) ==
    source.kind = "str"
    /\ (StartsWith(source.text, SrHttp) \/ StartsWith(source.text, SrHttps))

SrLoaded(how) == [ok |-> TRUE, how |-> how, e |-> NoError]

SrFailed(how, kind, message) ==
    [ok |-> FALSE, how |-> how, e |-> [kind |-> kind, message |-> <<message>>]]

\* Image.open(source): a path of an image file opens; any other string names
\* no file, and a decoded image is neither a path nor a file object
ImageOpenSource(source) ==
    IF source.kind = "Image"
    THEN SrFailed("open", "AttributeError", "read")
    ELSE IF source.text \in SrLocalFiles
    THEN SrLoaded("open")
    ELSE SrFailed("open", "FileNotFoundError", "No such file or directory")

\* download_image_from_url(url)
DownloadImageFromUrl(source) ==
    IF source.text \in SrRemote
    THEN SrLoaded("download")
    ELSE SrFailed("download", "ConnectionError", "Max retries exceeded")

\* a layer of create_three_layer_poster: the image itself, else a download
\* for a URL, else Image.open
LoadLayer(source) ==
    IF source.kind = "Image" THEN SrLoaded("as_is")
    ELSE IF IsUrl(source) THEN DownloadImageFromUrl(source)
    ELSE ImageOpenSource(source)

\* the photo of overlay_frame_on_photo: the image itself, else Image.open
LoadPhoto(source) ==
    IF source.kind = "Image" THEN SrLoaded("as_is")
    ELSE ImageOpenSource(source)

\* the frame of overlay_frame_on_photo: a download for a URL, else Image.open
LoadFrame(source) ==
    IF IsUrl(source) THEN DownloadImageFromUrl(source)
    ELSE ImageOpenSource(source)

SrNotLoaded == [ok |-> FALSE, how |-> "none", e |-> NoError]

SrInit ==
    /\ pc = "sr"
    /\ \/ \E photo \in SrSources, frame \in SrSources :
            sr = [fn |-> "overlay_frame_on_photo",
                  sources |-> [photo |-> photo, frame |-> frame],
                  loaded  |-> [photo |-> SrNotLoaded, frame |-> SrNotLoaded],
                  at |-> "photo", error |-> NoError]
       \/ \E poster \in SrSources, profile \in SrSources, frame \in SrSources :
            sr = [fn |-> "create_three_layer_poster",
                  sources |-> [poster |-> poster, profile |-> profile, frame |-> frame],
                  loaded  |-> [poster |-> SrNotLoaded, profile |-> SrNotLoaded,
                               frame |-> SrNotLoaded],
                  at |-> "poster", error |-> NoError]
    /\ rc = NoCall /\ ov = NoCall /\ tl = NoCall
    /\ ly = NoCall /\ mk = NoCall /\ cc = NoCall /\ fs = NoCall /\ b64 = NoCall
    /\ db = NoCall

\* the layer is loaded and the next one is due, or the failure leaves the
\* function as a ValueError
SrAfter(layer, got, next, prefix) ==
    /\ sr' = [sr EXCEPT !.loaded[layer] = got,
                        !.at = IF got.ok THEN next ELSE "raised",
                        !.error = IF got.ok THEN NoError ELSE Wrap(prefix, got.e)]
    /\ UNCHANGED <<pc, rc, ov, tl, ly, mk, cc, fs, b64, db>>

SrOvPhoto ==
    /\ pc = "sr" /\ sr.fn = "overlay_frame_on_photo" /\ sr.at = "photo"
    /\ SrAfter("photo", LoadPhoto(sr.sources.photo), "frame", OvPrefix)

SrOvFrame ==
    /\ pc = "sr" /\ sr.fn = "overlay_frame_on_photo" /\ sr.at = "frame"
    /\ SrAfter("frame", LoadFrame(sr.sources.frame), "loaded", OvPrefix)

SrTlPoster ==
    /\ pc = "sr" /\ sr.fn = "create_three_layer_poster" /\ sr.at = "poster"
    /\ SrAfter("poster", LoadLayer(sr.sources.poster), "profile", TlPrefix)

SrTlProfile ==
    /\ pc = "sr" /\ sr.fn = "create_three_layer_poster" /\ sr.at = "profile"
    /\ SrAfter("profile", LoadLayer(sr.sources.profile), "frame", TlPrefix)

SrTlFrame ==
    /\ pc = "sr" /\ sr.fn = "create_three_layer_poster" /\ sr.at = "frame"
    /\ SrAfter("frame", LoadLayer(sr.sources.frame), "loaded", TlPrefix)

SrNext == SrOvPhoto \/ SrOvFrame \/ SrTlPoster \/ SrTlProfile \/ SrTlFrame

SpecSources == SrInit /\ [][SrNext]_vars

(***************************************************************************)
(* The campaigns and frames in the database, and the requests that change  *)
(* them: CampaignCreateView.post, CampaignFrameManageView.post,            *)
(* CampaignFrameDetailView.put and .delete (views.py), CampaignFrame.save  *)
(* and Campaign.generate_unique_code (models.py), migrate_frames           *)
(* (migrate_existing_frames.py).                                           *)
(*                                                                         *)
(* A request is in one of the slots and runs one database query per step;  *)
(* each query is atomic and no transaction spans two of them.  Primary     *)
(* keys come from a counter per table and are not reused.                  *)
(***************************************************************************)
Slots == {"a", "b"}

\* max_attempts of generate_unique_code
MaxAttempts == 10

\* the frames a campaign may have: campaign.frames.count() >= 10
FrameLimit == 10

Letters == {"A", "B", "C", "D", "E", "F", "G", "H", "I", "J", "K", "L", "M",
            "N", "O", "P", "Q", "R", "S", "T", "U", "V", "W", "X", "Y", "Z"}
Digits  == {"0", "1", "2", "3", "4", "5", "6", "7", "8", "9"}

\* string.ascii_uppercase + string.digits, then
\* characters.replace('O', '').replace('I', '')
Characters == (Letters \cup Digits) \ {"O", "I"}

\* the codes looked at: random.choices(characters, k=6) can give each of
\* them that has six characters, all of them in characters
CodeProbe ==
    {<<"A", "7", "K", "2", "Q", "Z">>,
     <<"B", "3", "M", "9", "X", "Y">>,
     <<"O", "I", "0", "1", "O", "I">>,
     <<"A", "7", "K", "2", "Q">>}

\* ''.join(random.choices(characters, k=6))
RandomChoices(characters, k) ==
    {code \in CodeProbe : Len(code) = k /\ \A i \in 1..k : code[i] \in characters}

NoReq ==
    [kind |-> "none", at |-> "idle", campaign |-> 0, frame |-> 0,
     body |-> "absent", is_default |-> FALSE, order |-> 0, attempts |-> 0,
     code |-> <<>>, status |-> 0, saved |-> 0]

Req(kind, at, campaign, frame, is_default) ==
    [NoReq EXCEPT !.kind = kind, !.at = at, !.campaign = campaign, !.frame = frame,
                  !.is_default = is_default]

\* campaign.frames
FramesOf(frames, campaign) == {f \in frames : f.campaign = campaign}

Max(values) == CHOOSE v \in values : \A w \in values : w <= v

\* campaign.frames.aggregate(models.Max('order'))['order__max']: None for no rows
OrderMax(rows) == IF rows = {} THEN <<>> ELSE <<Max({f.order : f \in rows})>>

\* max_order + 1 with max_order = order__max or -1: None and 0 are both falsy
NextOrder(order__max) ==
    LET max_order == IF order__max = <<>> \/ order__max[1] = 0 THEN -1 ELSE order__max[1]
    IN  max_order + 1

\* CampaignFrame.save, first query: filter(campaign=self.campaign,
\* is_default=True).exclude(pk=self.pk).update(is_default=False)
ClearKeepingOthers(frames, campaign, pk) == frames

ClearOtherDefaults(frames, campaign, pk) ==
    {IF f.campaign = campaign /\ f.is_default /\ f.id /= pk
     THEN [f EXCEPT !.is_default = FALSE] ELSE f : f \in frames}

\* a request to a public endpoint, before it is sent.  parts is the length of
\* slug.split('-'); data are the campaigns the response tells about; record
\* is the key of the GeneratedImage row the request wrote, 0 for none
NoPub ==
    [view |-> "none", at |-> "idle", parts |-> 0, code |-> <<>>, photo |-> "none",
     extension_ok |-> TRUE, content_type_ok |-> TRUE, size_ok |-> TRUE,
     decodable |-> TRUE, frame_id |-> <<>>, result |-> "none",
     status |-> 0, error |-> "", data |-> {}, composed |-> FALSE, record |-> 0]

\* the database before any request: nothing, or one campaign as
\* CampaignCreateView leaves it, or a campaign from before the frames table
\* (frame_image alone)
DbEmpty ==
    [campaigns |-> {}, frames |-> {}, next_campaign |-> 1, next_frame |-> 1,
     reqs |-> [s \in Slots |-> NoReq], ops |-> 0,
     images |-> {}, pub |-> [s \in Slots |-> NoPub]]

OthersIdle ==
    /\ rc = NoCall /\ ov = NoCall /\ tl = NoCall
    /\ ly = NoCall /\ mk = NoCall /\ cc = NoCall /\ fs = NoCall /\ b64 = NoCall
    /\ sr = NoCall

\* legacy: the campaign is older than the frames table
Campaign(id, code) ==
    [id |-> id, code |-> code, frame_image |-> TRUE, is_active |-> TRUE, legacy |-> FALSE]

Frame(id, campaign, is_default, order) ==
    [id |-> id, campaign |-> campaign, is_default |-> is_default, order |-> order]

DbInit ==
    /\ pc = "db"
    /\ \/ db = DbEmpty
       \/ \E code \in RandomChoices(Characters, 6), migrated \in BOOLEAN :
            db = [DbEmpty EXCEPT
                    !.campaigns = {[Campaign(1, code) EXCEPT !.legacy = ~migrated]},
                    !.frames = IF migrated THEN {Frame(1, 1, TRUE, 0)} ELSE {},
                    !.next_campaign = 2,
                    !.next_frame = IF migrated THEN 2 ELSE 1]
    /\ OthersIdle

DbSame == UNCHANGED <<pc, rc, ov, tl, ly, mk, cc, fs, b64, sr>>

\* a slot is free for a request: nothing in it, or an answered request
Free(s) == db.reqs[s].at \in {"idle", "done"}

Begin(s, req) ==
    /\ pc = "db"
    /\ Free(s)
    /\ db.ops < MaxOps
    /\ db' = [db EXCEPT !.reqs[s] = req, !.ops = @ + 1]
    /\ DbSame

Answer(req, status) == [req EXCEPT !.at = "done", !.status = status]

CampaignIds == {c.id : c \in db.campaigns}
FrameKeys   == {f.id : f \in db.frames}

\* the requests an admin can send
DbBeginCreate(s) == Begin(s, Req("create", "create_code", 0, 0, TRUE))

DbBeginAdd(s) ==
    \E c \in CampaignIds \cup {db.next_campaign}, is_default \in BOOLEAN :
      Begin(s, Req("add", "add_check", c, 0, is_default))

\* is_default in the body is 'true', 'false' or absent
DbBeginPut(s) ==
    \E c \in CampaignIds, f \in FrameKeys \cup {db.next_frame},
       body \in {"true", "false", "absent"} :
      Begin(s, [Req("put", "put_load", c, f, FALSE) EXCEPT !.body = body])

DbBeginDelete(s) ==
    \E c \in CampaignIds, f \in FrameKeys \cup {db.next_frame} :
      Begin(s, Req("delete", "delete_check", c, f, FALSE))

DbBeginMigrate(s) ==
    \E c \in CampaignIds : Begin(s, Req("migrate", "migrate_check", c, 0, TRUE))

Step(s, req) ==
    /\ db' = [db EXCEPT !.reqs[s] = req]
    /\ DbSame

\* generate_unique_code, one turn of the loop: a code no campaign has is
\* returned; after max_attempts codes in use ValueError is raised and the
\* view answers 500
CreateCode(s) ==
    /\ pc = "db"
    /\ db.reqs[s].at = "create_code"
    /\ \E code \in RandomChoices(Characters, 6) :
         IF ~\E c \in db.campaigns : c.code = code
         THEN Step(s, [db.reqs[s] EXCEPT !.code = code, !.at = "create_campaign",
                                         !.attempts = @ + 1])
         ELSE IF db.reqs[s].attempts + 1 < MaxAttempts
         THEN Step(s, [db.reqs[s] EXCEPT !.attempts = @ + 1])
         ELSE Step(s, Answer([db.reqs[s] EXCEPT !.attempts = @ + 1], 500))

\* code = models.CharField(max_length=6, unique=True): no constraint
UniqueUnchecked(campaigns, code) == FALSE

\* the insert of a campaign with this code breaks the unique constraint
UniqueViolated(campaigns, code) == \E c \in campaigns : c.code = code

\* campaign.save(): the row is inserted unless the upload fails or the code
\* is taken (code is unique); a failure is answered 500
CreateCampaign(s) ==
    /\ pc = "db"
    /\ db.reqs[s].at = "create_campaign"
    /\ db.next_campaign <= MaxCampaigns
    /\ \E fails \in BOOLEAN :
         IF fails \/ UniqueViolated(db.campaigns, db.reqs[s].code)
         THEN Step(s, Answer(db.reqs[s], 500))
         ELSE /\ db' = [db EXCEPT
                          !.campaigns = @ \cup {Campaign(db.next_campaign, db.reqs[s].code)},
                          !.next_campaign = @ + 1,
                          !.reqs[s] = [db.reqs[s] EXCEPT !.campaign = db.next_campaign,
                                                         !.order = 0,
                                                         !.at = "save_clear"]]
              /\ DbSame

\* CampaignFrameManageView.post: the campaign, then the limit of frames
AddCheck(s) ==
    /\ pc = "db"
    /\ db.reqs[s].at = "add_check"
    /\ IF db.reqs[s].campaign \notin CampaignIds
       THEN Step(s, Answer(db.reqs[s], 404))
       ELSE IF Cardinality(FramesOf(db.frames, db.reqs[s].campaign)) >= FrameLimit
       THEN Step(s, Answer(db.reqs[s], 400))
       ELSE Step(s, [db.reqs[s] EXCEPT !.at = "add_order"])

\* order = max_order + 1
AddOrder(s) ==
    /\ pc = "db"
    /\ db.reqs[s].at = "add_order"
    /\ Step(s, [db.reqs[s] EXCEPT
                  !.order = NextOrder(OrderMax(FramesOf(db.frames, db.reqs[s].campaign))),
                  !.at = "save_clear"])

\* CampaignFrameDetailView.put: the frame of the campaign is read, name and
\* is_default are set on the instance
PutLoad(s) ==
    /\ pc = "db"
    /\ db.reqs[s].at = "put_load"
    /\ LET rows == {f \in FramesOf(db.frames, db.reqs[s].campaign) : f.id = db.reqs[s].frame}
       IN  IF rows = {}
           THEN Step(s, Answer(db.reqs[s], 404))
           ELSE LET row == CHOOSE f \in rows : TRUE
                IN  Step(s, [db.reqs[s] EXCEPT
                               !.is_default = IF db.reqs[s].body = "absent"
                                              THEN row.is_default
                                              ELSE db.reqs[s].body = "true",
                               !.order = row.order,
                               !.at = "save_clear"])

\* migrate_frames, for one campaign: a default frame for a campaign that has
\* a frame_image and no frame
MigrateCheck(s) ==
    /\ pc = "db"
    /\ db.reqs[s].at = "migrate_check"
    /\ LET rows == {c \in db.campaigns : c.id = db.reqs[s].campaign /\ c.frame_image}
       IN  IF rows = {} \/ FramesOf(db.frames, db.reqs[s].campaign) /= {}
           THEN Step(s, Answer(db.reqs[s], 0))
           ELSE Step(s, [db.reqs[s] EXCEPT !.order = 0, !.at = "save_clear"])

\* CampaignFrame.save, first query
SaveClear(s) ==
    /\ pc = "db"
    /\ db.reqs[s].at = "save_clear"
    /\ db' = [db EXCEPT
                !.frames = IF db.reqs[s].is_default
                           THEN ClearOtherDefaults(@, db.reqs[s].campaign, db.reqs[s].frame)
                           ELSE @,
                !.reqs[s] = [db.reqs[s] EXCEPT !.at = "save_write"]]
    /\ DbSame

\* CampaignFrame.save, super().save(): the row of the instance is written, a
\* new row with the next key for a new frame; the upload of the image can fail
SaveWrite(s) ==
    /\ pc = "db"
    /\ db.reqs[s].at = "save_write"
    /\ LET req == db.reqs[s]
           pk  == IF req.frame = 0 THEN db.next_frame ELSE req.frame
       IN  \E fails \in BOOLEAN :
             IF fails
             THEN Step(s, Answer(req, 500))
             ELSE /\ db' = [db EXCEPT
                         !.frames = {f \in @ : f.id /= pk}
                                    \cup {Frame(pk, req.campaign, req.is_default, req.order)},
                         !.next_frame = IF req.frame = 0 THEN @ + 1 ELSE @,
                         !.reqs[s] = [Answer(req, IF req.kind = "put" THEN 200 ELSE 201)
                                        EXCEPT !.saved = pk]]
                  /\ DbSame

\* CampaignFrameDetailView.delete: the frame of the campaign, then the count
DeleteCheck(s) ==
    /\ pc = "db"
    /\ db.reqs[s].at = "delete_check"
    /\ IF ~\E f \in FramesOf(db.frames, db.reqs[s].campaign) : f.id = db.reqs[s].frame
       THEN Step(s, Answer(db.reqs[s], 404))
       ELSE IF Cardinality(FramesOf(db.frames, db.reqs[s].campaign)) <= 1
       THEN Step(s, Answer(db.reqs[s], 400))
       ELSE Step(s, [db.reqs[s] EXCEPT !.at = "delete_row"])

\* frame.delete()
DeleteRow(s) ==
    /\ pc = "db"
    /\ db.reqs[s].at = "delete_row"
    /\ db' = [db EXCEPT !.frames = {f \in @ : f.id /= db.reqs[s].frame},
                        !.reqs[s] = Answer(db.reqs[s], 200)]
    /\ DbSame

DbStep(s) ==
    \/ CreateCode(s) \/ CreateCampaign(s) \/ AddCheck(s) \/ AddOrder(s) \/ PutLoad(s)
    \/ MigrateCheck(s) \/ SaveClear(s) \/ SaveWrite(s) \/ DeleteCheck(s) \/ DeleteRow(s)

DbBegin(s) ==
    \/ DbBeginCreate(s) \/ DbBeginAdd(s) \/ DbBeginPut(s) \/ DbBeginDelete(s)
    \/ DbBeginMigrate(s)

\* no request is under way
Quiet == \A s \in Slots : Free(s)

\* slot a takes a request when it is free, slot b the request that arrives
\* while the one in slot a is under way
Arrives(s) == IF s = "a" THEN Free("a") ELSE ~Free("a")

\* every kind of request, one at a time
SpecAdmin == DbInit /\ [][(Quiet /\ DbBegin("a")) \/ DbStep("a")]_vars

\* frames added and updated side by side
DefaultsNext ==
    \E s \in Slots :
      \/ Arrives(s) /\ (DbBeginAdd(s) \/ DbBeginPut(s))
      \/ AddCheck(s) \/ AddOrder(s) \/ PutLoad(s) \/ SaveClear(s) \/ SaveWrite(s)

SpecDefaults == DbInit /\ [][DefaultsNext]_vars

\* a campaign with as many frames as the views allow, or one less
DbInitFull ==
    /\ pc = "db"
    /\ \E code \in RandomChoices(Characters, 6), n \in {FrameLimit - 1, FrameLimit} :
         db = [DbEmpty EXCEPT
                 !.campaigns = {Campaign(1, code)},
                 !.frames = {Frame(i, 1, i = 1, 0) : i \in 1..n},
                 !.next_campaign = 2,
                 !.next_frame = n + 1]
    /\ OthersIdle

\* campaigns created, frames added and deleted side by side
FrameLimitNext ==
    \E s \in Slots :
      \/ Arrives(s) /\ (DbBeginCreate(s) \/ DbBeginAdd(s) \/ DbBeginDelete(s))
      \/ CreateCode(s) \/ CreateCampaign(s) \/ AddCheck(s) \/ AddOrder(s)
      \/ SaveClear(s) \/ SaveWrite(s) \/ DeleteCheck(s) \/ DeleteRow(s)

SpecFrameLimit == (DbInit \/ DbInitFull) /\ [][FrameLimitNext]_vars

\* campaigns created side by side
CodesNext ==
    \E s \in Slots :
      \/ Arrives(s) /\ DbBeginCreate(s)
      \/ CreateCode(s) \/ CreateCampaign(s) \/ SaveClear(s) \/ SaveWrite(s)

SpecCodes == DbInit /\ [][CodesNext]_vars

(***************************************************************************)
(* The public endpoints of views.py: CampaignDetailView.get,               *)
(* CampaignBySlugView.get, CampaignFramesView.get, GenerateImageView.post. *)
(*                                                                         *)
(* db.pub holds two requests.  The one in slot b is the request of slot a  *)
(* sent again, with the same code or another one, after slot a was         *)
(* answered.  db.images are the rows of GeneratedImage.                    *)
(***************************************************************************)
PublicViews == {"detail", "by_slug", "frames", "generate"}

\* the codes a visitor sends: those of RandomChoices, one of which no
\* campaign of PubInit has
PubCodes == RandomChoices(Characters, 6)

\* campaign.is_active
IsActiveAlways(campaign) == TRUE

IsActive(campaign) == campaign.is_active

\* Campaign.objects.get(code=code): the rows found, none for DoesNotExist
CampaignsByCode(campaigns, code) == {c \in campaigns : c.code = code}

\* the fields of GeneratedImage (models.py) and Model.__init__, which raises
\* TypeError for a keyword that is no field
GeneratedImageFields ==
    {"id", "campaign", "frame", "poster_image", "profile_photo", "generated_image",
     "profile_position", "output_size", "created_at"}

ConstructorAccepts(kwargs) == kwargs \subseteq GeneratedImageFields

GeneratedImageRow(id, campaign, frame, generated_image) ==
    [id |-> id, campaign |-> campaign, frame |-> frame, generated_image |-> generated_image]

\* one campaign, active or not, with or without the old frame_image, with
\* or without a frame, and the image of an earlier visitor or none
PubInit ==
    /\ pc = "db"
    /\ \E code \in PubCodes, is_active \in BOOLEAN, frame_image \in BOOLEAN,
          with_frame \in BOOLEAN, with_image \in BOOLEAN :
         db = [DbEmpty EXCEPT
                 !.campaigns = {[Campaign(1, code) EXCEPT !.is_active = is_active,
                                                          !.frame_image = frame_image,
                                                          !.legacy = ~with_frame]},
                 !.frames = IF with_frame THEN {Frame(1, 1, TRUE, 0)} ELSE {},
                 !.images = IF with_image
                            THEN {GeneratedImageRow(1, 1, IF with_frame THEN 1 ELSE 0, TRUE)}
                            ELSE {},
                 !.next_campaign = 2,
                 !.next_frame = IF with_frame THEN 2 ELSE 1]
    /\ OthersIdle

PubSend(s, req) ==
    /\ pc = "db"
    /\ db.pub[s].at = "idle"
    /\ db' = [db EXCEPT !.pub[s] = req]
    /\ DbSame

PubStep(s, req) ==
    /\ db' = [db EXCEPT !.pub[s] = req]
    /\ DbSame

Respond(req, status, error, data) ==
    [req EXCEPT !.at = "done", !.status = status, !.error = error, !.data = data]

\* GET /api/campaign/<code>/
PubBeginDetail(s) ==
    \E code \in PubCodes :
      PubSend(s, [NoPub EXCEPT !.view = "detail", !.at = "get", !.code = code])

\* GET /api/campaign/slug/<slug>/ and GET /api/campaign/slug/<slug>/frames/:
\* a slug without a hyphen, or one whose last part is code
PubBeginSlug(s) ==
    \E view \in {"by_slug", "frames"}, parts \in 1..2, code \in PubCodes :
      PubSend(s, [NoPub EXCEPT !.view = view, !.at = "get", !.parts = parts, !.code = code])

\* POST /api/generate/: code absent or given; a photo file, photo_data or
\* neither
PubBeginGenerate(s) ==
    \E code \in {<<>>} \cup PubCodes, photo \in {"none", "file", "data"},
       extension_ok \in BOOLEAN, content_type_ok \in BOOLEAN, size_ok \in BOOLEAN,
       decodable \in BOOLEAN, frame_id \in {<<>>, <<1>>} :
      /\ photo /= "file" => decodable
      /\ photo /= "data" => extension_ok /\ content_type_ok
      /\ PubSend(s, [NoPub EXCEPT !.view = "generate", !.at = "validate", !.code = code,
                                  !.photo = photo, !.extension_ok = extension_ok,
                                  !.content_type_ok = content_type_ok,
                                  !.size_ok = size_ok, !.decodable = decodable,
                                  !.frame_id = frame_id])

\* the request of slot a once more, with any code
PubBeginAgain(s) ==
    /\ s = "b"
    /\ db.pub["a"].at = "done"
    /\ \E code \in PubCodes :
         PubSend(s, [NoPub EXCEPT
                       !.view = db.pub["a"].view,
                       !.at = IF db.pub["a"].view = "generate" THEN "validate" ELSE "get",
                       !.parts = db.pub["a"].parts,
                       !.code = IF db.pub["a"].code = <<>> THEN <<>> ELSE code,
                       !.photo = db.pub["a"].photo,
                       !.extension_ok = db.pub["a"].extension_ok,
                       !.content_type_ok = db.pub["a"].content_type_ok,
                       !.size_ok = db.pub["a"].size_ok,
                       !.decodable = db.pub["a"].decodable,
                       !.frame_id = db.pub["a"].frame_id])

\* CampaignDetailView.get
DetailGet(s) ==
    /\ pc = "db"
    /\ db.pub[s].view = "detail" /\ db.pub[s].at = "get"
    /\ LET found == CampaignsByCode(db.campaigns, db.pub[s].code)
       IN  IF found = {}
           THEN PubStep(s, Respond(db.pub[s], 404, "Campaign not found", {}))
           ELSE LET campaign == CHOOSE c \in found : TRUE
                IN  IF ~IsActive(campaign)
                    THEN PubStep(s, Respond(db.pub[s], 404, "Campaign not found", {}))
                    ELSE PubStep(s, Respond(db.pub[s], 200, "", {campaign.id}))

\* CampaignBySlugView.get; building the list of frames can raise, which the
\* last except answers
BySlugGet(s) ==
    /\ pc = "db"
    /\ db.pub[s].view = "by_slug" /\ db.pub[s].at = "get"
    /\ IF db.pub[s].parts < 2
       THEN PubStep(s, Respond(db.pub[s], 404, "Invalid campaign URL", {}))
       ELSE LET found == CampaignsByCode(db.campaigns, db.pub[s].code)
            IN  IF found = {}
                THEN PubStep(s, Respond(db.pub[s], 404, "Campaign not found", {}))
                ELSE LET campaign == CHOOSE c \in found : TRUE
                     IN  IF ~IsActive(campaign)
                         THEN PubStep(s, Respond(db.pub[s], 404, "Campaign not found", {}))
                         ELSE \E raises \in BOOLEAN :
                                IF raises
                                THEN PubStep(s, Respond(db.pub[s], 404,
                                                        "Invalid campaign URL: e", {}))
                                ELSE PubStep(s, Respond(db.pub[s], 200, "", {campaign.id}))

\* CampaignFramesView.get
FramesGet(s) ==
    /\ pc = "db"
    /\ db.pub[s].view = "frames" /\ db.pub[s].at = "get"
    /\ IF db.pub[s].parts < 2
       THEN PubStep(s, Respond(db.pub[s], 404, "Invalid campaign URL", {}))
       ELSE LET found == CampaignsByCode(db.campaigns, db.pub[s].code)
            IN  IF found = {}
                THEN PubStep(s, Respond(db.pub[s], 404, "Campaign not found", {}))
                ELSE LET campaign == CHOOSE c \in found : TRUE
                     IN  IF ~IsActive(campaign)
                         THEN PubStep(s, Respond(db.pub[s], 404, "Campaign not found", {}))
                         ELSE PubStep(s, Respond(db.pub[s], 200, "", {campaign.id}))

\* GenerateImageView.post, the required fields
GenValidate(s) ==
    /\ pc = "db"
    /\ db.pub[s].view = "generate" /\ db.pub[s].at = "validate"
    /\ IF db.pub[s].code = <<>>
       THEN PubStep(s, Respond(db.pub[s], 400, "Campaign code is required", {}))
       ELSE IF db.pub[s].photo = "none"
       THEN PubStep(s, Respond(db.pub[s], 400, "Photo file or photo_data is required", {}))
       ELSE PubStep(s, [db.pub[s] EXCEPT !.at = "lookup"])

\* GenerateImageView.post, the campaign
GenLookup(s) ==
    /\ pc = "db"
    /\ db.pub[s].view = "generate" /\ db.pub[s].at = "lookup"
    /\ LET found == CampaignsByCode(db.campaigns, db.pub[s].code)
       IN  IF found = {}
           THEN PubStep(s, Respond(db.pub[s], 404, "Invalid campaign code", {}))
           ELSE LET campaign == CHOOSE c \in found : TRUE
                IN  IF ~IsActive(campaign)
                    THEN PubStep(s, Respond(db.pub[s], 404, "Invalid campaign code", {}))
                    ELSE PubStep(s, [db.pub[s] EXCEPT !.at = "check"])

\* the rows of campaign.frames as ViewFrame reads them
FrameRows(frames, campaign) ==
    {[id |-> f.id, order |-> f.order, created_at |-> f.id, is_default |-> f.is_default] :
       f \in FramesOf(frames, campaign)}

\* GenerateImageView.post, the file, the size and the frame
GenCheck(s) ==
    /\ pc = "db"
    /\ db.pub[s].view = "generate" /\ db.pub[s].at = "check"
    /\ LET campaign == CHOOSE c \in CampaignsByCode(db.campaigns, db.pub[s].code) : TRUE
           frame    == ViewFrame(FrameRows(db.frames, campaign.id), db.pub[s].frame_id)
       IN  IF db.pub[s].photo = "file" /\ ~db.pub[s].extension_ok
           THEN PubStep(s, Respond(db.pub[s], 400, "Invalid image format", {}))
           ELSE IF db.pub[s].photo = "file" /\ ~db.pub[s].content_type_ok
           THEN PubStep(s, Respond(db.pub[s], 400, "Invalid image format", {}))
           ELSE IF ~db.pub[s].size_ok
           THEN PubStep(s, Respond(db.pub[s], 400, "Invalid size option", {}))
           ELSE IF frame = None /\ ~campaign.frame_image
           THEN PubStep(s, Respond(db.pub[s], 400, "No frame available for this campaign", {}))
           ELSE PubStep(s, [db.pub[s] EXCEPT
                              !.at = IF db.pub[s].photo = "data" THEN "decode" ELSE "upload"])

\* the base64 path: process_base64_image
GenDecode(s) ==
    /\ pc = "db"
    /\ db.pub[s].view = "generate" /\ db.pub[s].at = "decode"
    /\ IF ~db.pub[s].decodable
       THEN PubStep(s, Respond(db.pub[s], 400, "Invalid image data", {}))
       ELSE PubStep(s, [db.pub[s] EXCEPT !.at = "compose"])

\* the base64 path: the frame's url or path is read, which can raise, and
\* overlay_frame_on_photo runs; it raises ValueError or returns a ContentFile
\* (Cloudinary) or a path (local storage)
GenCompose(s) ==
    /\ pc = "db"
    /\ db.pub[s].view = "generate" /\ db.pub[s].at = "compose"
    /\ \E outcome \in {"raises", "ValueError", "ContentFile", "path"} :
         IF outcome = "raises"
         THEN PubStep(s, Respond(db.pub[s], 500, "Failed to generate image", {}))
         ELSE IF outcome = "ValueError"
         THEN PubStep(s, Respond([db.pub[s] EXCEPT !.composed = TRUE],
                                 400, "Image processing failed", {}))
         ELSE PubStep(s, [db.pub[s] EXCEPT !.composed = TRUE, !.result = outcome,
                                           !.at = "save"])

\* the base64 path: GeneratedImage(campaign, frame, output_size), the
\* generated image attached, generated_image.save(); attaching a ContentFile
\* and the INSERT can raise
GenSave(s) ==
    /\ pc = "db"
    /\ db.pub[s].view = "generate" /\ db.pub[s].at = "save"
    /\ LET campaign == CHOOSE c \in CampaignsByCode(db.campaigns, db.pub[s].code) : TRUE
           frame    == ViewFrame(FrameRows(db.frames, campaign.id), db.pub[s].frame_id)
           id       == Cardinality(db.images) + 1
       IN  \E raises \in BOOLEAN :
             IF raises \/ ~ConstructorAccepts({"campaign", "frame", "output_size"})
             THEN PubStep(s, Respond(db.pub[s], 500, "Failed to generate image", {}))
             ELSE /\ db' = [db EXCEPT
                              !.images = @ \cup {GeneratedImageRow(id, campaign.id,
                                                   IF frame = None THEN 0 ELSE frame.id,
                                                   TRUE)},
                              !.pub[s] = [db.pub[s] EXCEPT !.record = id, !.at = "serialize"]]
                  /\ DbSame

\* GeneratedImageSerializer(generated_image).data['generated_image_url']:
\* obj.generated_image.url and request.build_absolute_uri, inside the try of
\* the view, after the row was written
GenSerialize(s) ==
    /\ pc = "db"
    /\ db.pub[s].view = "generate" /\ db.pub[s].at = "serialize"
    /\ \E raises \in BOOLEAN :
         IF raises
         THEN PubStep(s, Respond(db.pub[s], 500, "Failed to generate image", {}))
         ELSE PubStep(s, Respond(db.pub[s], 200, "", {}))

\* the file-upload path: GeneratedImage(campaign, frame, user_photo,
\* output_size); user_photo is no field of GeneratedImage, so that the
\* constructor raises TypeError and the view answers 500
GenUpload(s) ==
    /\ pc = "db"
    /\ db.pub[s].view = "generate" /\ db.pub[s].at = "upload"
    /\ IF ~ConstructorAccepts({"campaign", "frame", "user_photo", "output_size"})
       THEN PubStep(s, Respond(db.pub[s], 500, "Failed to generate image", {}))
       ELSE PubStep(s, [db.pub[s] EXCEPT !.at = "upload_save"])

PublicNext ==
    \/ PubBeginDetail("a") \/ PubBeginSlug("a") \/ PubBeginGenerate("a")
    \/ PubBeginAgain("b")
    \/ \E s \in Slots :
         \/ DetailGet(s) \/ BySlugGet(s) \/ FramesGet(s)
         \/ GenValidate(s) \/ GenLookup(s) \/ GenCheck(s) \/ GenDecode(s)
         \/ GenCompose(s) \/ GenSave(s) \/ GenSerialize(s) \/ GenUpload(s)

SpecPublic == PubInit /\ [][PublicNext]_vars

(***************************************************************************)
(* create_circular_mask(size), followed at one pixel of the mask.          *)
(*                                                                         *)
(* A pixel (i, j) is the square from (i, j) to (i + 1, j + 1).  Pillow's   *)
(* ImageDraw.ellipse fills the pixels of the ellipse inscribed in the box  *)
(* it is given; which of the pixels next to the outline it fills is left   *)
(* open here: a pixel is Within the ellipse if the square grown by one     *)
(* pixel on every side lies in it, Beyond it if the grown square does not  *)
(* meet it.  Coordinates are doubled to stay in whole numbers.             *)
(***************************************************************************)
MkSides == 1..MaxMask

Clamp(v, lo, hi) == IF v < lo THEN lo ELSE IF v > hi THEN hi ELSE v

\* the point (x2 / 2, y2 / 2) lies in the ellipse inscribed in box
InEllipse(box, x2, y2) ==
    LET a == box[3] - box[1]
        b == box[4] - box[2]
        dx == (x2 - box[1] - box[3]) * b
        dy == (y2 - box[2] - box[4]) * a
    IN  dx * dx + dy * dy <= (a * b) * (a * b)

Within(box, pixel) ==
    \A cx \in {2 * (pixel[1] - 1), 2 * (pixel[1] + 2)},
       cy \in {2 * (pixel[2] - 1), 2 * (pixel[2] + 2)} : InEllipse(box, cx, cy)

Beyond(box, pixel) ==
    ~InEllipse(box,
               Clamp(box[1] + box[3], 2 * (pixel[1] - 1), 2 * (pixel[1] + 2)),
               Clamp(box[2] + box[4], 2 * (pixel[2] - 1), 2 * (pixel[2] + 2)))

\* the box of draw.ellipse((0, 0) + size, fill=255)
EllipseBoxHalved(size) == <<0, 0, Width(size) \div 2, Height(size) \div 2>>

EllipseBox(size) == <<0, 0, Width(size), Height(size)>>

\* the values draw.ellipse(box, fill) can leave at a pixel that held old
EllipseValues(box, fill, pixel, old) ==
    IF Within(box, pixel) THEN {fill}
    ELSE IF Beyond(box, pixel) THEN {old}
    ELSE {old, fill}

NoMask == [mode |-> "none", size |-> <<0, 0>>, value |-> 0]

MkInit ==
    /\ pc = "mk_start"
    /\ \E w \in MkSides, h \in MkSides :
         \E i \in 0..(w - 1), j \in 0..(h - 1) :
           mk = [size |-> <<w, h>>, pixel |-> <<i, j>>, mask |-> NoMask, result |-> NoMask]
    /\ rc = NoCall /\ ov = NoCall /\ tl = NoCall
    /\ ly = NoCall /\ cc = NoCall /\ fs = NoCall /\ b64 = NoCall
    /\ sr = NoCall /\ db = NoCall

\* mask = Image.new('L', size, 0)
MkNew ==
    /\ pc = "mk_start"
    /\ mk' = [mk EXCEPT !.mask = [mode |-> "L", size |-> mk.size, value |-> 0]]
    /\ pc' = "mk_new"
    /\ UNCHANGED <<rc, ov, tl, ly, cc, fs, b64, sr, db>>

\* draw.ellipse((0, 0) + size, fill=255)
MkEllipse ==
    /\ pc = "mk_new"
    /\ \E v \in EllipseValues(EllipseBox(mk.size), 255, mk.pixel, mk.mask.value) :
         mk' = [mk EXCEPT !.mask.value = v]
    /\ pc' = "mk_drawn"
    /\ UNCHANGED <<rc, ov, tl, ly, cc, fs, b64, sr, db>>

\* return mask
MkReturn ==
    /\ pc = "mk_drawn"
    /\ mk' = [mk EXCEPT !.result = mk.mask]
    /\ pc' = "mk_done"
    /\ UNCHANGED <<rc, ov, tl, ly, cc, fs, b64, sr, db>>

MkNext == MkNew \/ MkEllipse \/ MkReturn

\* the mask and the layer it becomes the alpha of
SpecMasking == (MkInit \/ LyInit) /\ [][MkNext \/ LyNext]_vars

(***************************************************************************)
(* Properties.                                                             *)
(***************************************************************************)
Presets == {"instagram_post", "instagram_story", "whatsapp_dp"}

\* the positions of create_three_layer_poster at which the footprint is known
TlAfterFootprint ==
    {"tl_footprint", "tl_resized", "tl_raised", "tl_cropped", "tl_masked",
     "tl_pasted", "tl_framed", "tl_flat", "tl_done"}

\* the positions at which the cover-crop of the profile is done
TlAfterCrop == {"tl_cropped", "tl_masked", "tl_pasted", "tl_framed", "tl_flat", "tl_done"}

\* twice the scale, a whole number for the scales of the model
ScaleTwice == FTrunc(FMul(tl.scale, FTwo))

TlMinSide == Min(Width(tl.target_size), Height(tl.target_size))

\* C1: whenever create_three_layer_poster returns a result, the returned
\* image has the width and height of the poster it was given, whatever the
\* sizes of the profile photo and the frame and whatever output_size is.
C1_PosterNativeSize ==
    pc = "tl_done" => tl.result.size = tl.poster_in.size

C1_Witness ==
    /\ pc = "tl_done"
    /\ tl.result.size = tl.poster_in.size
    /\ Width(tl.poster_in.size) /= Height(tl.poster_in.size)
    /\ tl.profile_in.size /= tl.poster_in.size
    /\ tl.frame_in.size /= tl.poster_in.size
    /\ tl.output_size = "instagram_story"

\* C2: for each of the three presets the image overlay_frame_on_photo
\* produces is exactly 1080x1080 (instagram_post), 1080x1920
\* (instagram_story) or 500x500 (whatsapp_dp), for every photo and frame.
C2_PresetSize ==
    pc = "ov_done" =>
        /\ ov.output_size = "instagram_post"  => ov.result.size = <<1080, 1080>>
        /\ ov.output_size = "instagram_story" => ov.result.size = <<1080, 1920>>
        /\ ov.output_size = "whatsapp_dp"     => ov.result.size = <<500, 500>>

C2_Witness ==
    /\ pc = "ov_done"
    /\ ov.output_size = "instagram_story"
    /\ ov.user_photo_path.mode = "RGBA"
    /\ ov.user_photo_path.size = <<640, 480>>
    /\ ov.frame_path_or_url.size = <<500, 500>>
    /\ ov.result.size = <<1080, 1920>>

\* C3: with an output size name that is no preset, overlay_frame_on_photo
\* raises nothing and works at 1080x1080, the size of 'instagram_post'.
C3_UnknownNameFallsBack ==
    ov.output_size \notin Presets =>
        /\ pc /= "ov_raised"
        /\ pc /= "ov_start" => ov.target_size = <<1080, 1080>>
        /\ pc = "ov_done" => ov.result.size = <<1080, 1080>>

C3_Witness ==
    /\ pc = "ov_done"
    /\ ov.output_size = "unknown_value"
    /\ ov.user_photo_path.size /= <<1080, 1080>>
    /\ ov.result.size = <<1080, 1080>>

\* C4: when the resized frame is fully opaque (alpha 255) at a pixel, the
\* result there is the frame's pixel, whatever the photo and its alpha.
C4_OpaqueFrameReplaces ==
    (pc \in {"ov_pasted", "ov_done"} /\ ov.frame.a = 255) =>
        /\ ov.final_image.rgb = ov.frame.rgb
        /\ ov.final_image.a = 255

C4_Witness ==
    /\ pc = "ov_done"
    /\ ov.frame.a = 255
    /\ ov.user_photo.mode = "RGBA"
    /\ ov.user_photo.a = 0
    /\ ov.user_photo.rgb /= ov.frame.rgb
    /\ ov.final_image.rgb = ov.frame.rgb

\* C5: when the resized frame is fully transparent (alpha 0) at a pixel, the
\* result there is the pixel of the photo as it was after its resize.
C5_TransparentFrameKeepsPhoto ==
    (pc \in {"ov_pasted", "ov_done"} /\ ov.frame.a = 0) =>
        /\ ov.final_image.rgb = ov.user_photo.rgb
        /\ ov.final_image.a = ov.user_photo.a

C5_Witness ==
    /\ pc = "ov_done"
    /\ ov.frame.a = 0
    /\ ov.frame.rgb /= ov.user_photo.rgb
    /\ ov.user_photo_path.size /= ov.target_size
    /\ ov.final_image.rgb = ov.user_photo.rgb

\* C6: for every image and every target size with positive sides,
\* resize_and_crop raises nothing and returns an image of exactly the
\* target size, in the wider branch, the taller branch and for equal ratios.
C6_ExactTargetSize ==
    /\ pc /= "rc_raised"
    /\ pc \in {"rc_cropped", "rc_done"} => rc.resized = rc.target_size

C6_Witness ==
    /\ pc = "rc_done"
    /\ rc.resized = rc.target_size
    /\ rc.image /= rc.target_size
    /\ Width(rc.image) * Height(rc.target_size) = Height(rc.image) * Width(rc.target_size)

\* C7: in resize_and_crop the scaled image is at least as large as the
\* target on both axes, the crop box lies inside it (no padding), and the
\* margins cut off on opposite sides differ by at most one pixel.
C7_CropBoxInside ==
    pc \in {"rc_cropped", "rc_done"} =>
        /\ rc.new_width >= Width(rc.target_size)
        /\ rc.new_height >= Height(rc.target_size)
        /\ BoxInside(rc.box, rc.scaled)
        /\ (rc.new_width - rc.box[3]) - rc.box[1] \in {0, 1}
        /\ (rc.new_height - rc.box[4]) - rc.box[2] \in {0, 1}

\* C8 (as amended): base_profile_size is 0.3 * min(target) cut to a whole
\* number; the width is base_profile_size * scale cut to a whole number; the
\* height is base_profile_size * scale * 1.3 cut to a whole number for
\* 'rectangle' and equals the width for every other shape.
C8_FootprintTruncated ==
    pc \in TlAfterFootprint =>
        /\ tl.base_profile_size = (3 * TlMinSide) \div 10
        /\ tl.profile_width = (tl.base_profile_size * ScaleTwice) \div 2
        /\ tl.profile_height =
             IF tl.crop_shape = "rectangle"
             THEN (13 * tl.base_profile_size * ScaleTwice) \div 20
             ELSE (tl.base_profile_size * ScaleTwice) \div 2

C8_Witness ==
    /\ pc = "tl_footprint"
    /\ tl.crop_shape = "rectangle"
    /\ 10 * tl.base_profile_size /= 3 * TlMinSide
    /\ tl.profile_width > 0
    /\ tl.profile_height > tl.profile_width

\* C8 (as claimed): the footprint is that of base_size = 0.3 * min(target),
\* not cut to a whole number: width base_size * scale, height
\* base_size * scale * 1.3 for 'rectangle' and base_size * scale otherwise
\* (in whole pixels).
C8_FootprintOfExactBase ==
    pc \in TlAfterFootprint =>
        /\ tl.profile_width = (3 * TlMinSide * ScaleTwice) \div 20
        /\ tl.profile_height =
             IF tl.crop_shape = "rectangle"
             THEN (39 * TlMinSide * ScaleTwice) \div 200
             ELSE (3 * TlMinSide * ScaleTwice) \div 20

\* C9: for the shapes circle and square the footprint at scale 2.0 has
\* twice the width and twice the height, so four times the area, of the
\* footprint at scale 1.0 for the same poster.
C9_ScaleTwoDoubles ==
    (pc = "tl_footprint" /\ tl.scale = FTwo /\ tl.crop_shape \in {"circle", "square"}) =>
        LET w1 == ProfileWidth(tl.base_profile_size, FOne, tl.crop_shape)
            h1 == ProfileHeight(tl.base_profile_size, FOne, tl.crop_shape)
        IN  /\ tl.profile_width = 2 * w1
            /\ tl.profile_height = 2 * h1
            /\ tl.profile_width * tl.profile_height = 4 * (w1 * h1)

C9_Witness ==
    /\ pc = "tl_footprint"
    /\ tl.scale = FTwo
    /\ tl.crop_shape = "square"
    /\ tl.profile_width = 2 * tl.base_profile_size
    /\ tl.profile_height = 2 * tl.base_profile_size
    /\ tl.base_profile_size > 1

\* C10: the resized profile is at least as large as the footprint on both
\* axes and the center-crop box lies inside it, so the cropped profile
\* covers the whole footprint.
C10_CoverCropCoversFootprint ==
    pc \in TlAfterCrop =>
        /\ tl.new_width >= tl.profile_width
        /\ tl.new_height >= tl.profile_height
        /\ BoxInside(tl.box, tl.scaled)

\* the positions of create_three_layer_poster at which the profile is pasted
TlAfterPaste == {"tl_pasted", "tl_framed", "tl_flat", "tl_done"}

\* the center the placement asks for: x and y where given, else the center
\* of the canvas
TlCenterX ==
    IF tl.profile_position.x = Absent
    THEN Width(tl.poster_in.size) \div 2 ELSE tl.profile_position.x[1]

TlCenterY ==
    IF tl.profile_position.y = Absent
    THEN Height(tl.poster_in.size) \div 2 ELSE tl.profile_position.y[1]

\* C11: the profile is pasted at paste_x = center_x - width/2 and
\* paste_y = center_y - height/2, the halves cut to whole numbers, so the
\* center of the footprint is within one pixel of (center_x, center_y) for
\* odd and even sizes; an absent x or y is the center of the canvas.
C11_PasteCentered ==
    pc \in TlAfterPaste =>
        /\ tl.paste_x = TlCenterX - tl.profile_width \div 2
        /\ tl.paste_y = TlCenterY - tl.profile_height \div 2
        /\ 2 * tl.paste_x + tl.profile_width - 2 * TlCenterX \in {0, 1}
        /\ 2 * tl.paste_y + tl.profile_height - 2 * TlCenterY \in {0, 1}

C11_Witness ==
    /\ pc = "tl_done"
    /\ tl.profile_position.x /= Absent
    /\ tl.profile_position.y = Absent
    /\ tl.profile_width % 2 = 1
    /\ tl.profile_height > tl.profile_width
    /\ tl.paste_x = 7 - tl.profile_width \div 2
    /\ tl.paste_y = Height(tl.poster_in.size) \div 2 - tl.profile_height \div 2

White == <<255, 255, 255>>

\* C12: the layers lie in the order poster, masked profile, frame: in the
\* flattened result a pixel where the frame is opaque shows the frame; where
\* the frame is transparent and the mask is 255 it shows the profile; where
\* the frame is transparent and the mask is 0, or outside the footprint, it
\* shows the poster (on white where the poster itself is transparent).
C12_LayerOrder ==
    pc = "ly_flat" =>
        /\ ly.frame.a = 255 => ly.result.rgb = ly.frame.rgb
        /\ (ly.frame.a = 0 /\ ly.where = "inside") => ly.result.rgb = ly.profile_in.rgb
        /\ (ly.frame.a = 0 /\ ly.where /= "inside" /\ ly.poster.a = 255) =>
               ly.result.rgb = ly.poster_in.rgb
        /\ (ly.frame.a = 0 /\ ly.where /= "inside" /\ ly.poster.a = 0) =>
               ly.result.rgb = White

C12_Witness ==
    /\ pc = "ly_flat"
    /\ ly.frame.a = 0
    /\ ly.where = "corner"
    /\ ly.poster_in.mode = "RGB"
    /\ ly.poster_in.rgb /= ly.profile_in.rgb
    /\ ly.poster_in.rgb /= ly.frame_in.rgb
    /\ ly.result.rgb = ly.poster_in.rgb

KnownShapes == {"circle", "square", "rectangle"}

\* the positions of create_three_layer_poster at which the mask exists
TlAfterMask == {"tl_masked", "tl_pasted", "tl_framed", "tl_flat", "tl_done"}

\* C14: a crop shape that is none of 'circle', 'square', 'rectangle' raises
\* no error of its own and is treated as 'circle': the footprint is square,
\* the one 'circle' gets, and the circular mask of that size is applied.
C14_UnknownShapeIsCircle ==
    tl.crop_shape \notin KnownShapes =>
        /\ pc \in TlAfterFootprint =>
              /\ tl.profile_width = tl.profile_height
              /\ tl.profile_width = (tl.base_profile_size * ScaleTwice) \div 2
        /\ pc = "tl_footprint" =>
              /\ tl.profile_width = ProfileWidth(tl.base_profile_size, tl.scale, "circle")
              /\ tl.profile_height = ProfileHeight(tl.base_profile_size, tl.scale, "circle")
        /\ pc \in TlAfterMask =>
              tl.mask = [shape |-> "circle", size |-> <<tl.profile_width, tl.profile_width>>]
        /\ pc = "tl_raised" => (tl.e = ResizeError /\ tl.profile_width = 0)

C14_Witness ==
    /\ pc = "tl_done"
    /\ tl.crop_shape = "hexagon"
    /\ tl.mask.shape = "circle"
    /\ tl.mask.size = <<tl.profile_width, tl.profile_height>>
    /\ tl.profile_width = tl.profile_height
    /\ tl.profile_width > 1

\* the message of error holds the message of e
CarriesCause(error, e) == \E i \in DOMAIN error.message : error.message[i] = e.message[1]

OvOrder ==
    <<"ov_start", "ov_target", "ov_loaded", "ov_photo", "ov_frame", "ov_canvas",
      "ov_pasted", "ov_named", "ov_done">>

TlOrder ==
    <<"tl_start", "tl_poster", "tl_loaded", "tl_canvas", "tl_position", "tl_footprint",
      "tl_resized", "tl_cropped", "tl_masked", "tl_pasted", "tl_framed", "tl_flat", "tl_done">>

\* b is the stage right after a
Follows(order, a, b) == \E i \in 1..(Len(order) - 1) : order[i] = a /\ order[i + 1] = b

\* a step runs the next stage of its function, or raises
StepInOrder ==
    \/ pc \in OvStages /\ (Follows(OvOrder, pc, pc') \/ pc' = "ov_raised")
    \/ pc \in TlStages /\ (Follows(TlOrder, pc, pc') \/ pc' = "tl_raised")

\* one result and no error, or an error and no output
TwoOutcomes ==
    /\ pc = "ov_done" =>
          /\ ov.result.kind \in {"ContentFile", "path"}
          /\ ov.error = NoError
          /\ ov.files = IF ov.using_cloudinary THEN {} ELSE {ov.result.name}
    /\ pc \in OvStages \cup {"ov_raised"} => (ov.result = NoResult /\ ov.files = {})
    /\ pc = "ov_raised" => ov.error /= NoError
    /\ pc = "tl_done" =>
          /\ tl.result.kind = "ContentFile"
          /\ tl.error = NoError
          /\ tl.files = {}
    /\ pc \in TlStages \cup {"tl_raised"} => (tl.result = NoResult /\ tl.files = {})
    /\ pc = "tl_raised" => tl.error /= NoError

\* C16: a call of overlay_frame_on_photo or create_three_layer_poster runs
\* its stages once, in order, never again after a failure, and ends either
\* with one result returned or with an error raised, nothing returned and
\* no file left under generated/.
C16_SinglePass == [][StepInOrder]_vars /\ []TwoOutcomes

C16_Witness ==
    /\ pc = "ov_raised"
    /\ ov.unique_filename /= <<>>
    /\ ~ov.using_cloudinary
    /\ ov.final_image /= NoPic
    /\ ov.result = NoResult
    /\ ov.files = {}

\* C17: a call changes none of the image objects it was given: the photo and
\* the frame of overlay_frame_on_photo and the poster, the profile and the
\* frame of create_three_layer_poster have the pixels, mode and size they
\* had before the call, also an RGBA photo that already has the target size.
C17_InputsUntouched ==
    /\ pc \in OvStages \cup {"ov_done", "ov_raised"} =>
          /\ ov.user_photo_path = ov.given.photo
          /\ ov.frame_path_or_url = ov.given.frame
    /\ pc \in TlStages \cup {"tl_done", "tl_raised"} =>
          /\ tl.poster_in = tl.given.poster
          /\ tl.profile_in = tl.given.profile
          /\ tl.frame_in = tl.given.frame

\* C18: calls running at the same time share no state that changes: each
\* names its output with a token of its own, no two calls have the same
\* file name or write the same path, and what a call returns and saves is
\* the composite of its own photo and frame, as if it had run alone.
C18_CallsIndependent ==
    pc = "cc" =>
        /\ \A c \in Calls, d \in Calls :
              (c /= d /\ cc.call[c].unique_filename /= <<>>
                      /\ cc.call[d].unique_filename /= <<>>) =>
                  cc.call[c].unique_filename /= cc.call[d].unique_filename
        /\ \A c \in Calls :
              cc.call[c].pc = "done" =>
                  /\ cc.call[c].result.name = cc.call[c].unique_filename
                  /\ cc.call[c].final_image.rgb =
                        <<Blend(cc.call[c].frame.a, cc.call[c].user_photo.rgb[1], cc.call[c].frame.rgb[1]),
                          Blend(cc.call[c].frame.a, cc.call[c].user_photo.rgb[2], cc.call[c].frame.rgb[2]),
                          Blend(cc.call[c].frame.a, cc.call[c].user_photo.rgb[3], cc.call[c].frame.rgb[3])>>
                  /\ ~cc.using_cloudinary =>
                        <<cc.call[c].unique_filename, cc.call[c].final_image>> \in cc.files
        /\ cc.using_cloudinary => cc.files = {}
        /\ ~cc.using_cloudinary =>
              Cardinality(cc.files) = Cardinality({c \in Calls : cc.call[c].pc = "done"})

C18_Witness ==
    /\ pc = "cc"
    /\ ~cc.using_cloudinary
    /\ \A c \in Calls : cc.call[c].pc = "done"
    /\ cc.call[1].final_image /= cc.call[2].final_image
    /\ Cardinality(cc.files) = MaxCalls

\* no frame of the campaign is named by the request
FsNotExplicit ==
    \/ fs.frame_id = <<>>
    \/ fs.frame_id[1] = 0
    \/ \A f \in fs.frames : f.id /= fs.frame_id[1]

\* what is the frame to use: the default frame that sorts first, else the
\* frame that sorts first, else the campaign's own frame_image
FsIsDefaultChoice(choice) ==
    LET defaults == {f \in fs.frames : f.is_default}
        among    == IF defaults /= {} THEN defaults ELSE fs.frames
    IN  IF fs.frames = {}
        THEN choice = IF fs.frame_image THEN [kind |-> "campaign.frame_image"] ELSE None
        ELSE /\ choice.kind = "frame"
             /\ \E f \in among :
                   /\ f.id = choice.id
                   /\ \A g \in among :
                         g = f \/ g.order > f.order
                           \/ (g.order = f.order /\ g.created_at > f.created_at)

\* C19: when the request names no frame of the campaign, the frame used for
\* generation, and always the frame_url reported for the campaign, is the
\* first frame flagged default, else the first frame in the ordering
\* (order, then created_at), else the campaign's own frame_image.
C19_DefaultFrame ==
    /\ (pc \in {"fs_generated", "fs_done"} /\ FsNotExplicit) => FsIsDefaultChoice(fs.used)
    /\ pc = "fs_done" => FsIsDefaultChoice(fs.frame_url)
    /\ (pc = "fs_done" /\ FsNotExplicit) => fs.used = fs.frame_url

C19_Witness ==
    /\ pc = "fs_done"
    /\ fs.frame_id = <<MaxFrames + 1>>
    /\ Cardinality({f \in fs.frames : f.is_default}) = 2
    /\ Cardinality(fs.frames) = 3
    /\ fs.used.kind = "frame"
    /\ fs.used.id = 3
    /\ fs.used = fs.frame_url

B64Finished(c) == b64.calls[c].at \in {"returned", "raised"}

\* what is left of the given text is what follows its first comma
B64RestOf(given, left) ==
    IF \A i \in 1..Len(given) : given[i] /= ","
    THEN left = given
    ELSE \E k \in 1..Len(given) :
           /\ given[k] = ","
           /\ \A j \in 1..(k - 1) : given[j] /= ","
           /\ Len(left) = Len(given) - k
           /\ \A j \in 1..Len(left) : left[j] = given[k + j]

\* C20: process_base64_image drops everything up to and including the first
\* comma of its input and decodes only the rest; for a prefix and a payload
\* without a comma the call on prefix + ',' + payload ends as the call on the
\* payload does, with the same image; a call that fails raises ValueError.
C20_PrefixStripped ==
    pc = "b64" =>
      /\ \A c \in 1..2 :
           /\ b64.calls[c].at /= "called" =>
                 B64RestOf(b64.calls[c].given, b64.calls[c].base64_data)
           /\ b64.calls[c].at = "raised" =>
                 /\ b64.calls[c].error.kind = "ValueError"
                 /\ b64.calls[c].image = NoImage
           /\ b64.calls[c].at = "returned" =>
                 /\ b64.calls[c].error = NoError
                 /\ b64.calls[c].image.kind = "Image"
      /\ (B64Finished(1) /\ B64Finished(2) /\ ~Has(b64.payload, ",")) =>
           /\ b64.calls[1].at = b64.calls[2].at
           /\ b64.calls[1].image = b64.calls[2].image

C20_Witness ==
    /\ pc = "b64"
    /\ b64.prefix = <<"Q">>
    /\ ~Has(b64.payload, ",")
    /\ b64.calls[1].at = "returned"
    /\ b64.calls[2].at = "returned"
    /\ b64.calls[1].image = b64.calls[2].image
    /\ b64.calls[1].image.data = Magic

\* C21: create_three_layer_poster sets no bounds on the placement: with a
\* poster, a profile photo and a frame that are valid images it returns a
\* result and does not raise, for every center, rotation and scale above 0.
C21_EveryPlacementAccepted ==
    (/\ tl /= NoCall
     /\ tl.scale /= FZero
     /\ Width(tl.given.poster.size) >= 1 /\ Height(tl.given.poster.size) >= 1
     /\ Width(tl.given.profile.size) >= 1 /\ Height(tl.given.profile.size) >= 1)
    => pc /= "tl_raised"

\* the sources of the three kinds that name an image: a decoded image, the
\* path of an image file, the URL of an image
SrIsImage(source) == source.kind = "Image"
SrIsPath(source)  == source.kind = "str" /\ source.text = <<"/", "a">>
SrIsHttp(source) ==
    /\ source.kind = "str"
    /\ source.text \in {<<"h", "t", "t", "p", ":", "/", "/", "a">>,
                        <<"h", "t", "t", "p", "s", ":", "/", "/", "a">>}

SrLayers == IF sr.fn = "overlay_frame_on_photo" THEN {"photo", "frame"}
            ELSE {"poster", "profile", "frame"}

SrTried(layer) == sr.loaded[layer].how /= "none"

\* C22 as claimed: every layer of both compositors accepts a decoded image, a
\* local file path and a remote URL, and a source is fetched as a URL exactly
\* when it is a string starting with 'http://' or 'https://'.
C22_EveryLayerEverySource ==
    pc = "sr" =>
      \A layer \in SrLayers :
        SrTried(layer) =>
          /\ (SrIsImage(sr.sources[layer]) \/ SrIsPath(sr.sources[layer])
                \/ SrIsHttp(sr.sources[layer])) => sr.loaded[layer].ok
          /\ sr.loaded[layer].how = "download" <=> SrIsHttp(sr.sources[layer])

\* C22: every layer of create_three_layer_poster accepts a decoded image, a
\* local file path and a remote URL; of overlay_frame_on_photo the photo
\* accepts a decoded image or a local file path and the frame a local file
\* path or a remote URL; where a layer may be a URL, the source is fetched
\* as one exactly when it is a string starting with 'http://' or 'https://'.
C22_LayerSources ==
    pc = "sr" =>
      \A layer \in SrLayers :
        SrTried(layer) =>
          LET source == sr.sources[layer]
              got    == sr.loaded[layer]
          IN  IF sr.fn = "create_three_layer_poster"
              THEN /\ (SrIsImage(source) \/ SrIsPath(source) \/ SrIsHttp(source)) => got.ok
                   /\ got.how = "download" <=> SrIsHttp(source)
              ELSE IF layer = "photo"
              THEN /\ (SrIsImage(source) \/ SrIsPath(source)) => got.ok
                   /\ got.how /= "download"
              ELSE /\ (SrIsPath(source) \/ SrIsHttp(source)) => got.ok
                   /\ got.how = "download" <=> SrIsHttp(source)

C22_Witness ==
    /\ pc = "sr"
    /\ sr.fn = "create_three_layer_poster"
    /\ sr.at = "loaded"
    /\ SrIsImage(sr.sources.poster)
    /\ SrIsPath(sr.sources.profile)
    /\ sr.sources.frame.text = SrHttps \o <<"a">>
    /\ sr.loaded.frame.how = "download"
    /\ sr.loaded.profile.how = "open"

\* the frames of a campaign that are flagged default
DefaultsOf(frames, campaign) == {f \in frames : f.campaign = campaign /\ f.is_default}

AtMostOneDefault ==
    pc = "db" =>
      \A c \in db.campaigns : Cardinality(DefaultsOf(db.frames, c.id)) <= 1

\* the first query of a save with is_default true leaves no other frame of
\* the campaign flagged and leaves the frames of the other campaigns alone
SaveClearsOwnCampaign ==
    \A s \in Slots :
      (/\ pc = "db"
       /\ db.reqs[s].at = "save_clear"
       /\ db'.reqs[s].at = "save_write"
       /\ db.reqs[s].is_default)
      => /\ \A f \in db'.frames :
              (f.campaign = db.reqs[s].campaign /\ f.id /= db.reqs[s].frame) => ~f.is_default
         /\ {f \in db'.frames : f.campaign /= db.reqs[s].campaign}
              = {f \in db.frames : f.campaign /= db.reqs[s].campaign}

\* C23: with the admin requests and the migration run one at a time, every
\* campaign has at most one frame flagged default at every moment; a save
\* with is_default true clears the flag of every other frame of the same
\* campaign and of no frame of another campaign.
C23_OneDefaultPerCampaign == []AtMostOneDefault /\ [][SaveClearsOwnCampaign]_vars

C23_Witness ==
    /\ pc = "db"
    /\ db.reqs["a"].kind = "add"
    /\ db.reqs["a"].status = 201
    /\ db.reqs["a"].is_default
    /\ \E f \in db.frames, g \in db.frames :
         /\ f.id = db.reqs["a"].saved /\ f.is_default
         /\ g.campaign = f.campaign /\ g.id /= f.id /\ ~g.is_default

\* C24: when two requests that each save another frame of one campaign with
\* is_default true are interleaved, each clearing the other defaults and then
\* writing its own row, the campaign has at most one default frame once both
\* are answered.
C24_OneDefaultAfterRace ==
    (/\ pc = "db"
     /\ db.reqs["a"].at = "done" /\ db.reqs["b"].at = "done"
     /\ db.reqs["a"].is_default /\ db.reqs["b"].is_default
     /\ db.reqs["a"].saved /= 0 /\ db.reqs["b"].saved /= 0
     /\ db.reqs["a"].saved /= db.reqs["b"].saved
     /\ db.reqs["a"].campaign = db.reqs["b"].campaign)
    => Cardinality(DefaultsOf(db.frames, db.reqs["a"].campaign)) <= 1

\* C25: a campaign never has more than 10 frames, whatever campaign
\* creations, frame additions and frame deletions were answered, also when
\* frame additions run side by side; an addition to a campaign that has 10
\* frames or more is answered 400.
C25_AtMostTenFrames ==
    pc = "db" =>
      \A c \in db.campaigns : Cardinality(FramesOf(db.frames, c.id)) <= FrameLimit

\* C26: every campaign in the database has at least one frame once the
\* request that created it is answered, and keeps one through frame
\* additions and deletions: a delete of the last frame is answered 400 and
\* deletes nothing, and a creation that fails leaves no campaign without frame.
C26_AtLeastOneFrame ==
    (pc = "db" /\ Quiet) =>
      \A c \in db.campaigns :
        ~c.legacy => FramesOf(db.frames, c.id) /= {}

\* C27: a frame added with CampaignFrameManageView.post gets an order above
\* the order of every frame the campaign already has, the default frame of
\* the campaign's creation having order 0, so that no two frames of a
\* campaign share an order.
C27_OrderAboveExisting ==
    (/\ pc = "db"
     /\ db.reqs["a"].kind = "add"
     /\ db.reqs["a"].status = 201)
    => \A f \in db.frames, g \in db.frames :
         (/\ f.id = db.reqs["a"].saved
          /\ g.campaign = f.campaign
          /\ g.id /= f.id)
         => g.order < f.order

CodesUnique ==
    \A c \in db.campaigns, d \in db.campaigns : c.code = d.code => c.id = d.id

\* a code as generate_unique_code returns it: six characters, each an
\* uppercase letter or a digit and none of them 'O' or 'I'
WellFormedCode(code) ==
    /\ Len(code) = 6
    /\ \A i \in 1..6 :
         /\ code[i] \in Letters \cup Digits
         /\ code[i] /= "O" /\ code[i] /= "I"

CodesAsClaimed ==
    pc = "db" =>
      /\ CodesUnique
      /\ \A c \in db.campaigns : WellFormedCode(c.code)
      /\ \A s \in Slots :
           db.reqs[s].kind = "create" =>
             /\ db.reqs[s].attempts <= 10
             /\ db.reqs[s].at = "create_campaign" =>
                  /\ WellFormedCode(db.reqs[s].code)
                  /\ db.reqs[s].attempts >= 1
             /\ (db.reqs[s].at = "done" /\ db.reqs[s].code = <<>>) =>
                  /\ db.reqs[s].attempts = 10
                  /\ db.reqs[s].status = 500
                  /\ db.reqs[s].campaign = 0
                  /\ db.reqs[s].saved = 0

\* the code returned is in use by no campaign at the moment of the attempt
\* that returns it, and a request answered after ten collisions has changed
\* neither the campaigns nor the frames
CodeFreeWhenReturned ==
    \A s \in Slots :
      /\ (/\ pc = "db"
          /\ db.reqs[s].at = "create_code"
          /\ db'.reqs[s].at = "create_campaign")
         => ~\E c \in db.campaigns : c.code = db'.reqs[s].code
      /\ (/\ pc = "db"
          /\ db.reqs[s].at = "create_code"
          /\ db'.reqs[s].at = "done")
         => db'.campaigns = db.campaigns /\ db'.frames = db.frames

\* C28: no two campaigns have the same code, also when campaigns are
\* created side by side; generate_unique_code makes at most 10 attempts and
\* returns a code of six uppercase letters and digits without 'O' and 'I'
\* that no campaign uses, or raises ValueError after the 10th collision;
\* CampaignCreateView then answers 500 and creates no campaign and no frame.
C28_UniqueCodes == []CodesAsClaimed /\ [][CodeFreeWhenReturned]_vars

C28_Witness ==
    /\ pc = "db"
    /\ Cardinality(db.campaigns) = 2
    /\ db.reqs["a"].kind = "create" /\ db.reqs["a"].status = 201
    /\ db.reqs["b"].kind = "create" /\ db.reqs["b"].status = 500
    /\ db.reqs["b"].code = <<>>
    /\ db.reqs["b"].attempts = 10

(***************************************************************************)
(* The public endpoints and inactive campaigns                             *)
(***************************************************************************)
PubDone(s) == db.pub[s].at = "done"

NamesInactive(code) == \E c \in db.campaigns : c.code = code /\ ~c.is_active

NamesNothing(code) == code /= <<>> /\ CampaignsByCode(db.campaigns, code) = {}

\* the request gets as far as Campaign.objects.get: the slug has a code, the
\* generate request has a code and a photo
LooksUp(req) ==
    /\ req.view \in {"by_slug", "frames"} => req.parts >= 2
    /\ req.view = "generate" => req.code /= <<>> /\ req.photo /= "none"

SameAnswer(req, other) ==
    req.status = other.status /\ req.error = other.error /\ req.data = other.data

\* C29: a request to CampaignDetailView, CampaignBySlugView,
\* CampaignFramesView or GenerateImageView whose code is that of an inactive
\* campaign, once the view looks the campaign up, is answered 404 with the
\* status, the error and the data of the same request sent with a code no
\* campaign has; the answer holds nothing of the campaign, no GeneratedImage
\* row was written for it and overlay_frame_on_photo did not run.
C29_InactiveAsUnknown ==
    \A s \in Slots :
      (PubDone(s) /\ LooksUp(db.pub[s]) /\ NamesInactive(db.pub[s].code)) =>
        /\ db.pub[s].status = 404
        /\ db.pub[s].data = {}
        /\ db.pub[s].record = 0
        /\ ~db.pub[s].composed
        /\ \A t \in Slots :
             (PubDone(t) /\ NamesNothing(db.pub[t].code)) =>
               SameAnswer(db.pub[s], db.pub[t])

C29_Witness ==
    /\ PubDone("a") /\ PubDone("b")
    /\ db.pub["a"].view = "generate" /\ db.pub["a"].photo = "data"
    /\ NamesInactive(db.pub["a"].code)
    /\ NamesNothing(db.pub["b"].code)
    /\ db.pub["a"].status = 404 /\ db.pub["b"].status = 404

\* C30: a request GenerateImageView.post answered 400, 404 or 500 has
\* written no GeneratedImage row, and every row has a generated image.
C30_ErrorsLeaveNoRecord ==
    /\ \A s \in Slots :
         (PubDone(s) /\ db.pub[s].view = "generate"
            /\ db.pub[s].status \in {400, 404, 500}) => db.pub[s].record = 0
    /\ \A row \in db.images : row.generated_image

====
